---- MODULE Spec2Model ----
(***************************************************************************)
(* A model of the S3 artifact plugin server (main.go, pkg/s3/config.go):   *)
(* the request validator, the configuration resolver, the six RPC          *)
(* handlers, the streaming loop of OpenStream and the server lifecycle     *)
(* with its SIGTERM handling.                                              *)
(*                                                                         *)
(* Conventions.  A Go pointer or optional value is a sequence of length 0  *)
(* (nil) or 1.  An error is a record [code, msg]: code "nil" is the nil    *)
(* error, "plain" an ordinary Go error, any other code a gRPC status; msg  *)
(* is the message as the sequence of its fragments, so that wrapping with  *)
(* fmt.Errorf("...: %w") prepends a fragment.                              *)
(***************************************************************************)
EXTENDS Integers, Sequences, FiniteSets, TLC

\* ------------------------------------------------------------------ bounds

\* Call slots that may be in flight at once.
MaxCalls == 2
\* Longest byte source a Driver hands to OpenStream.
MaxLen == 3
\* Reads returning (0, nil) one stream may see.
MaxIdleReads == 1
\* Connections the listener accepts in one run.
MaxConns == 1

\* The read buffer of OpenStream: make([]byte, 1024*1024).
bufferLen == 1048576

\* ------------------------------------------------------------------ errors

NoError == [code |-> "nil", msg |-> <<>>]

\* errors.New / fmt.Errorf without a wrapped cause.
PlainError(text) == [code |-> "plain", msg |-> <<text>>]

\* fmt.Errorf(prefix + ": %w", err)
Wrap(prefix, err) == [code |-> "plain", msg |-> <<prefix>> \o err.msg]

\* status.Error(code, text): a gRPC status error.
StatusError(code, msg) == [code |-> code, msg |-> msg]

\* err.Error(): a status error prints its code before its message.
ErrorString(err) ==
    IF err.code = "plain" THEN err.msg
    ELSE IF err.code = "nil" THEN <<>>
    ELSE <<"rpc error: code = ", err.code, " desc = ">> \o err.msg

IsError(err) == err.code # "nil"

Contains(msg, fragment) == \E i \in 1..Len(msg) : msg[i] = fragment

\* ----------------------------------------------- configuration blob (YAML)

Opt(S) == {<<>>} \cup {<<x>> : x \in S}
IsNil(p) == Len(p) = 0
Deref(p) == p[1]

\* The value a blob gives a secret reference field: a mapping with name, key
\* and optional (any may be missing, extra marks a key outside the selector's
\* schema), or a scalar where a mapping is required.
RefValue(shape, name, key, optional, extra) ==
    [shape |-> shape, name |-> name, key |-> key, optional |-> optional, extra |-> extra]

\* A configuration blob: the text of Plugin.Configuration.  empty is the
\* empty string; otherwise the text is a document that is well-formed YAML
\* or not, with the top-level keys it sets (unknown: it also sets a key the
\* S3Bucket schema does not have).
Blob(empty, wellFormed, unknown, bucket, endpoint, region, roleARN, insecure, useSDKCreds, accessKeySecret, secretKeySecret, sessionTokenSecret) ==
    [empty |-> empty, wellFormed |-> wellFormed, unknown |-> unknown,
     bucket |-> bucket, endpoint |-> endpoint, region |-> region,
     roleARN |-> roleARN, insecure |-> insecure, useSDKCreds |-> useSDKCreds,
     accessKeySecret |-> accessKeySecret, secretKeySecret |-> secretKeySecret,
     sessionTokenSecret |-> sessionTokenSecret]

EmptyBlob ==
    Blob(TRUE, TRUE, FALSE, <<>>, <<>>, <<>>, <<>>, <<>>, <<>>, <<>>, <<>>, <<>>)

\* wfv1.S3Bucket, the fields this plugin reads.
S3Bucket(endpoint, bucket, region, roleARN, insecure, useSDKCreds, accessKeySecret, secretKeySecret, sessionTokenSecret) ==
    [Endpoint |-> endpoint, Bucket |-> bucket, Region |-> region,
     RoleARN |-> roleARN, Insecure |-> insecure, UseSDKCreds |-> useSDKCreds,
     AccessKeySecret |-> accessKeySecret, SecretKeySecret |-> secretKeySecret,
     SessionTokenSecret |-> sessionTokenSecret]

\* var config wfv1.S3Bucket: the zero value.
ZeroS3Bucket == S3Bucket("", "", "", "", <<>>, FALSE, <<>>, <<>>, <<>>)

\* A string field: the value written, or the zero value.
StringField(v) == IF IsNil(v) THEN "" ELSE Deref(v)

\* A *SecretKeySelector field: nil when the key is missing, else the selector
\* with the zero value for what the mapping leaves out.
SelectorField(v) ==
    IF IsNil(v) THEN <<>>
    ELSE <<[Name |-> StringField(Deref(v).name), Key |-> StringField(Deref(v).key),
            Optional |-> Deref(v).optional]>>

\* Strict decoding refuses a selector that is no mapping or has an extra key.
SelectorDecodes(v) ==
    IsNil(v) \/ (Deref(v).shape = "object" /\ ~Deref(v).extra)

\* A decoder that is not strict: keys outside the schema are ignored. C16
\* tells it from the code.
UnmarshalLenientOK(blob) ==
    blob.empty
    \/ (/\ blob.wellFormed
        /\ IsNil(blob.accessKeySecret) \/ Deref(blob.accessKeySecret).shape = "object"
        /\ IsNil(blob.secretKeySecret) \/ Deref(blob.secretKeySecret).shape = "object"
        /\ IsNil(blob.sessionTokenSecret) \/ Deref(blob.sessionTokenSecret).shape = "object")

\* yaml.UnmarshalStrict([]byte(configYAML), &config) == nil
UnmarshalStrictOK(blob) ==
    blob.empty
    \/ (/\ blob.wellFormed
        /\ ~blob.unknown
        /\ SelectorDecodes(blob.accessKeySecret)
        /\ SelectorDecodes(blob.secretKeySecret)
        /\ SelectorDecodes(blob.sessionTokenSecret))

\* A decoder that takes "insecure: false" for a field left out. C18 tells it
\* from the code.
UnmarshalledUnsetFalse(blob) ==
    IF blob.empty THEN ZeroS3Bucket
    ELSE S3Bucket(StringField(blob.endpoint), StringField(blob.bucket),
                  StringField(blob.region), StringField(blob.roleARN),
                  IF blob.insecure = <<TRUE>> THEN <<TRUE>> ELSE <<>>,
                  IF IsNil(blob.useSDKCreds) THEN FALSE ELSE Deref(blob.useSDKCreds),
                  SelectorField(blob.accessKeySecret),
                  SelectorField(blob.secretKeySecret),
                  SelectorField(blob.sessionTokenSecret))

\* What UnmarshalStrict leaves in config when it succeeds.
Unmarshalled(blob) ==
    IF blob.empty THEN ZeroS3Bucket
    ELSE S3Bucket(StringField(blob.endpoint), StringField(blob.bucket),
                  StringField(blob.region), StringField(blob.roleARN),
                  blob.insecure,
                  IF IsNil(blob.useSDKCreds) THEN FALSE ELSE Deref(blob.useSDKCreds),
                  SelectorField(blob.accessKeySecret),
                  SelectorField(blob.secretKeySecret),
                  SelectorField(blob.sessionTokenSecret))

\* A parser that refuses the empty string. C17 tells it from the code.
parseRefusingEmpty(configYAML) ==
    IF UnmarshalStrictOK(configYAML) /\ ~configYAML.empty
    THEN [config |-> <<Unmarshalled(configYAML)>>, err |-> NoError]
    ELSE [config |-> <<>>,
          err |-> Wrap("failed to parse plugin configuration", PlainError("yaml"))]

\* parsePluginConfiguration: (config, nil) or (nil, wrapped error).
parsePluginConfiguration(configYAML) ==
    IF UnmarshalStrictOK(configYAML)
    THEN [config |-> <<Unmarshalled(configYAML)>>, err |-> NoError]
    ELSE [config |-> <<>>,
          err |-> Wrap("failed to parse plugin configuration", PlainError("yaml"))]

\* --------------------------------------------------- environment of a call

\* What one call finds outside the process: whether rest.InClusterConfig and
\* kubernetes.NewForConfig succeed, the namespace file of the service account
\* (nil: unreadable) and the secrets of that namespace.  A secret is
\* [status |-> "ok" | "notFound" | "error", data |-> key -> optional value].
Env(inCluster, client, namespace, secrets) ==
    [inCluster |-> inCluster, client |-> client, namespace |-> namespace,
     secrets |-> secrets]

\* One step a resolution takes outside its own variables.
Event(ev, name, key) == [ev |-> ev, name |-> name, key |-> key]

CountEvents(log, ev) == Cardinality({i \in 1..Len(log) : log[i].ev = ev})

\* getNamespace: os.ReadFile of the service account's namespace file.
getNamespace(env) ==
    IF IsNil(env.namespace)
    THEN [namespace |-> "", err |-> Wrap("failed to read namespace", PlainError("open"))]
    ELSE [namespace |-> Deref(env.namespace), err |-> NoError]

\* A lookup that has the namespace at hand and reads no file. C15 tells it
\* from the code.
getSecretValueKnownNamespace(env, secretName, secretKey) ==
    LET secret == IF secretName \in DOMAIN env.secrets
                  THEN env.secrets[secretName]
                  ELSE [status |-> "notFound", data |-> <<>>]
        get == <<Event("GetSecret", secretName, secretKey)>>
    IN  IF IsNil(env.namespace)
        THEN [value |-> "", err |-> PlainError("failed to get namespace"), log |-> <<>>]
        ELSE IF secret.status # "ok"
        THEN [value |-> "", err |-> PlainError("failed to get secret"), log |-> get]
        ELSE IF secretKey \notin DOMAIN secret.data \/ IsNil(secret.data[secretKey])
        THEN [value |-> "", err |-> PlainError("secret key not found in secret"), log |-> get]
        ELSE [value |-> Deref(secret.data[secretKey]), err |-> NoError, log |-> get]

\* getSecretValue: the namespace is read, then the secret is fetched, then
\* the key is looked up in its data.  log lists the outside steps taken.
getSecretValue(env, secretName, secretKey) ==
    LET ns == getNamespace(env)
        readNs == <<Event("ReadNamespace", "", "")>>
        get == <<Event("GetSecret", secretName, secretKey)>>
    IN  IF IsError(ns.err)
        THEN [value |-> "", err |-> Wrap("failed to get namespace", ns.err), log |-> readNs]
        ELSE LET secret == IF secretName \in DOMAIN env.secrets
                           THEN env.secrets[secretName]
                           ELSE [status |-> "notFound", data |-> <<>>]
                 IsMissing(k) == k \notin DOMAIN secret.data \/ IsNil(secret.data[k])
             IN  IF secret.status # "ok"
                 THEN [value |-> "",
                       err |-> [code |-> "plain",
                                msg |-> <<"failed to get secret", secretName, secret.status>>],
                       log |-> readNs \o get]
                 ELSE IF IsMissing(secretKey)
                 THEN [value |-> "",
                       err |-> [code |-> "plain",
                                msg |-> <<"secret key not found in secret", secretKey, secretName>>],
                       log |-> readNs \o get]
                 ELSE [value |-> Deref(secret.data[secretKey]), err |-> NoError,
                       log |-> readNs \o get]

\* s3.ArtifactDriver, the fields getArtifactDriver sets.
ArtifactDriver(endpoint, region, secure, roleARN, useSDKCreds) ==
    [Endpoint |-> endpoint, Region |-> region, Secure |-> secure,
     AccessKey |-> "", SecretKey |-> "", SessionToken |-> "",
     RoleARN |-> roleARN, UseSDKCreds |-> useSDKCreds]

\* A block that goes on with an empty credential when the lookup fails. C14
\* tells it from the code.
storeSecretLenient(st, r, what, field) ==
    [driver |-> [st.driver EXCEPT ![field] = r.value], err |-> NoError,
     log |-> st.log \o r.log]

\* The body of one "if pluginConfig.XSecret != nil { ... }" block, r being
\* what getSecretValue returned: the error is wrapped and returned, or the
\* value is stored in the driver's field.
storeSecret(st, r, what, field) ==
    IF IsError(r.err)
    THEN [driver |-> st.driver, err |-> Wrap(what, r.err), log |-> st.log \o r.log]
    ELSE [driver |-> [st.driver EXCEPT ![field] = r.value], err |-> NoError,
          log |-> st.log \o r.log]

\* A block that is run also after an earlier block failed: the lookup is
\* made, the first error kept. C34 tells it from the code.
resolveSecretAfterFailure(st, env, selector, what, field) ==
    IF IsNil(selector) THEN st
    ELSE IF IsError(st.err)
    THEN [st EXCEPT !.log = st.log \o getSecretValue(env, Deref(selector).Name, Deref(selector).Key).log]
    ELSE storeSecret(st, getSecretValue(env, Deref(selector).Name, Deref(selector).Key),
                     what, field)

\* One "if pluginConfig.XSecret != nil { ... }" block of getArtifactDriver,
\* applied to the state st = [driver, err, log] the blocks before it left: a
\* block is reached only when none before it returned an error.
resolveSecret(st, env, selector, what, field) ==
    IF IsError(st.err) \/ IsNil(selector) THEN st
    ELSE storeSecret(st, getSecretValue(env, Deref(selector).Name, Deref(selector).Key),
                     what, field)

\* A resolver without the short-circuit: it goes on to the secrets whatever
\* useSDKCreds says. C10 tells it from the code.
NoShortCircuit(pluginConfig) == FALSE

\* if pluginConfig.UseSDKCreds { return driver, nil }
UseSDKCredsShortCircuit(pluginConfig) == pluginConfig.UseSDKCreds

\* Blocks that store the access key where the secret key belongs and the
\* secret key where the access key belongs. C11 tells them from the code.
resolveSecretsSwapped(st, env, pluginConfig) ==
    resolveSecret(
        resolveSecret(
            resolveSecret(st, env, pluginConfig.AccessKeySecret,
                          "failed to resolve access key", "SecretKey"),
            env, pluginConfig.SecretKeySecret,
            "failed to resolve secret key", "AccessKey"),
        env, pluginConfig.SessionTokenSecret,
        "failed to resolve session token", "SessionToken")

\* The three blocks in the order of the code: access key, secret key,
\* session token.
resolveSecrets(st, env, pluginConfig) ==
    resolveSecret(
        resolveSecret(
            resolveSecret(st, env, pluginConfig.AccessKeySecret,
                          "failed to resolve access key", "AccessKey"),
            env, pluginConfig.SecretKeySecret,
            "failed to resolve secret key", "SecretKey"),
        env, pluginConfig.SessionTokenSecret,
        "failed to resolve session token", "SessionToken")

\* What getArtifactDriver returns after the blocks: (nil, err) or (driver, nil).
resolved(st) ==
    IF IsError(st.err)
    THEN [driver |-> <<>>, err |-> st.err, log |-> st.log]
    ELSE [driver |-> <<st.driver>>, err |-> NoError, log |-> st.log]

\* A driver that is secure only when the configuration says "insecure:
\* false". C19 tells it from the code.
baseDriverInsecureByDefault(pluginConfig) ==
    ArtifactDriver(pluginConfig.Endpoint, pluginConfig.Region,
                   ~IsNil(pluginConfig.Insecure) /\ ~Deref(pluginConfig.Insecure),
                   pluginConfig.RoleARN, pluginConfig.UseSDKCreds)

\* The driver getArtifactDriver starts from: no credentials yet.
baseDriver(pluginConfig) ==
    ArtifactDriver(pluginConfig.Endpoint, pluginConfig.Region,
                   IsNil(pluginConfig.Insecure) \/ ~Deref(pluginConfig.Insecure),
                   pluginConfig.RoleARN, pluginConfig.UseSDKCreds)

\* getArtifactDriver: (driver, nil) or (nil, err), with the log of its steps.
getArtifactDriver(pluginConfig, env) ==
    IF UseSDKCredsShortCircuit(pluginConfig)
    THEN [driver |-> <<baseDriver(pluginConfig)>>, err |-> NoError, log |-> <<>>]
    ELSE IF ~env.inCluster
    THEN [driver |-> <<>>,
          err |-> Wrap("failed to get in-cluster config", PlainError("not in cluster")),
          log |-> <<Event("InClusterConfig", "", "")>>]
    ELSE IF ~env.client
    THEN [driver |-> <<>>,
          err |-> Wrap("failed to create kubernetes client", PlainError("bad config")),
          log |-> <<Event("InClusterConfig", "", ""), Event("NewForConfig", "", "")>>]
    ELSE resolved(resolveSecrets(
             [driver |-> baseDriver(pluginConfig), err |-> NoError,
              log |-> <<Event("InClusterConfig", "", ""), Event("NewForConfig", "", "")>>],
             env, pluginConfig))

\* An artifact built with the bucket's name joined to the key, as a path
\* would be. C39 tells it from the code.
createArgoArtifactKeyInBucket(pluginConfig, key) ==
    [S3 |-> [S3Bucket |-> pluginConfig, Key |-> pluginConfig.Bucket]]

\* createArgoArtifactFromConfig: the wfv1.Artifact handed to the Driver.
createArgoArtifactFromConfig(pluginConfig, key) ==
    [S3 |-> [S3Bucket |-> pluginConfig, Key |-> key]]

\* DriverAndArtifactFromConfig once the blob is parsed: build the artifact,
\* resolve the driver, return both with the driver's error.
withArtifact(pluginConfig, key, r) ==
    [driver |-> r.driver,
     artifact |-> <<createArgoArtifactFromConfig(pluginConfig, key)>>,
     err |-> r.err, log |-> <<Event("Unmarshal", "", "")>> \o r.log]

fromParsed(parsed, key, env) ==
    IF IsError(parsed.err)
    THEN [driver |-> <<>>, artifact |-> <<>>, err |-> parsed.err,
          log |-> <<Event("Unmarshal", "", "")>>]
    ELSE withArtifact(Deref(parsed.config), key,
                      getArtifactDriver(Deref(parsed.config), env))

\* DriverAndArtifactFromConfig: parse, build the artifact, resolve the driver.
DriverAndArtifactFromConfig(configYaml, key, env) ==
    fromParsed(parsePluginConfiguration(configYaml), key, env)

\* ------------------------------------------------------- request validator

\* artifact.Artifact of a request: nil, or with its Plugin envelope (nil, or
\* a configuration blob and a key).
NilArtifact == <<>>
PluginLocation(configuration, key) == [Configuration |-> configuration, Key |-> key]
Artifact(plugin) == <<[Plugin |-> plugin]>>

\* A validator without the third check: an empty configuration passes. C6
\* tells it from the code.
validateWithoutConfiguration(artifact) ==
    IF IsNil(artifact)
    THEN StatusError("InvalidArgument", <<"artifact is required">>)
    ELSE IF IsNil(Deref(artifact).Plugin)
    THEN StatusError("InvalidArgument", <<"plugin artifact location is required">>)
    ELSE NoError

\* validatePluginArtifact: nil, or an InvalidArgument status.
validatePluginArtifact(artifact) ==
    IF IsNil(artifact)
    THEN StatusError("InvalidArgument", <<"artifact is required">>)
    ELSE IF IsNil(Deref(artifact).Plugin)
    THEN StatusError("InvalidArgument", <<"plugin artifact location is required">>)
    ELSE IF Deref(Deref(artifact).Plugin).Configuration.empty
    THEN StatusError("InvalidArgument", <<"plugin configuration is required">>)
    ELSE NoError

\* A getDriver that returns the resolver's error as it is, without a status.
\* C9 tells it from the code.
passOnError(r) ==
    IF IsError(r.err)
    THEN [driver |-> <<>>, artifact |-> <<>>, err |-> r.err, log |-> r.log]
    ELSE r

\* The error of DriverAndArtifactFromConfig becomes an Internal status whose
\* message is the error's text, and nothing else is returned with it.
internalOnError(r) ==
    IF IsError(r.err)
    THEN [driver |-> <<>>, artifact |-> <<>>,
          err |-> StatusError("Internal", ErrorString(r.err)), log |-> r.log]
    ELSE r

\* getDriver: validate, then resolve.
getDriver(artifact, env) ==
    IF IsError(validatePluginArtifact(artifact))
    THEN [driver |-> <<>>, artifact |-> <<>>, err |-> validatePluginArtifact(artifact),
          log |-> <<>>]
    ELSE internalOnError(
             DriverAndArtifactFromConfig(Deref(Deref(artifact).Plugin).Configuration,
                                         Deref(Deref(artifact).Plugin).Key, env))

\* ---------------------------------------------------------- unary handlers

\* What the Driver method of a unary call answers: its error (or nil), with
\* the object names of ListObjects and the flag of IsDirectory.
DriverResult(err, objects, isDir) == [err |-> err, objects |-> objects, isDir |-> isDir]

\* A handler that hands the Driver context.Background(), which no client
\* cancels. C26 tells it from the code.
DriverCallDetached(method) == <<Event("Driver", method, "background")>>

\* The Driver method was invoked: its name joins the call's log, with the
\* context it was given: "call" for the context of the call (the one gRPC
\* cancels when the client goes away), "background" for a detached one.
DriverCall(method) == <<Event("Driver", method, "call")>>

\* What a handler returns (response, transport error), with the log of the
\* outside steps it took and the driver and artifact it built.
Returned(resp, err, log, driver, argo) ==
    [resp |-> resp, err |-> err, log |-> log, driver |-> driver, argo |-> argo]

LoadArtifactResponse(success, error) == [Success |-> success, Error |-> error]
SaveArtifactResponse(success, error) == [Success |-> success, Error |-> error]
DeleteArtifactResponse(success, error) == [Success |-> success, Error |-> error]
ListObjectsResponse(objects, error) == [Objects |-> objects, Error |-> error]
IsDirectoryResponse(isDirectory, error) == [IsDirectory |-> isDirectory, Error |-> error]

\* artifactServer.Load from getDriver's return (g) on: the error of getDriver
\* or of driver.Load (res) is put in the response, never returned.
LoadRespond(g, res) ==
    IF IsError(g.err)
    THEN Returned(<<LoadArtifactResponse(FALSE, ErrorString(g.err))>>, NoError, g.log, <<>>, <<>>)
    ELSE IF IsError(res.err)
    THEN Returned(<<LoadArtifactResponse(FALSE, ErrorString(res.err))>>, NoError,
                  g.log \o DriverCall("Load"), g.driver, g.artifact)
    ELSE Returned(<<LoadArtifactResponse(TRUE, <<>>)>>, NoError,
                  g.log \o DriverCall("Load"), g.driver, g.artifact)

\* artifactServer.Load
Load(artifact, env, res) ==
    IF IsNil(artifact)
    THEN Returned(<<LoadArtifactResponse(FALSE, <<"input artifact is required">>)>>, NoError, <<>>, <<>>, <<>>)
    ELSE LoadRespond(getDriver(artifact, env), res)

\* artifactServer.Save from getDriver's return (g) on: the error of getDriver
\* or of driver.Save (res) is put in the response, never returned.
SaveRespond(g, res) ==
    IF IsError(g.err)
    THEN Returned(<<SaveArtifactResponse(FALSE, ErrorString(g.err))>>, NoError, g.log, <<>>, <<>>)
    ELSE IF IsError(res.err)
    THEN Returned(<<SaveArtifactResponse(FALSE, ErrorString(res.err))>>, NoError,
                  g.log \o DriverCall("Save"), g.driver, g.artifact)
    ELSE Returned(<<SaveArtifactResponse(TRUE, <<>>)>>, NoError,
                  g.log \o DriverCall("Save"), g.driver, g.artifact)

\* artifactServer.Save
Save(artifact, env, res) ==
    IF IsNil(artifact)
    THEN Returned(<<SaveArtifactResponse(FALSE, <<"output artifact is required">>)>>, NoError, <<>>, <<>>, <<>>)
    ELSE SaveRespond(getDriver(artifact, env), res)

\* A Delete that returns getDriver's error as the call's error, with no
\* response. C7 tells it from the code.
DeleteReturnsError(g, res) ==
    IF IsError(g.err)
    THEN Returned(<<>>, g.err, g.log, <<>>, <<>>)
    ELSE IF IsError(res.err)
    THEN Returned(<<DeleteArtifactResponse(FALSE, ErrorString(res.err))>>, NoError,
                  g.log \o DriverCall("Delete"), g.driver, g.artifact)
    ELSE Returned(<<DeleteArtifactResponse(TRUE, <<>>)>>, NoError,
                  g.log \o DriverCall("Delete"), g.driver, g.artifact)

\* artifactServer.Delete from getDriver's return (g) on: the error of getDriver
\* or of driver.Delete (res) is put in the response, never returned.
DeleteRespond(g, res) ==
    IF IsError(g.err)
    THEN Returned(<<DeleteArtifactResponse(FALSE, ErrorString(g.err))>>, NoError, g.log, <<>>, <<>>)
    ELSE IF IsError(res.err)
    THEN Returned(<<DeleteArtifactResponse(FALSE, ErrorString(res.err))>>, NoError,
                  g.log \o DriverCall("Delete"), g.driver, g.artifact)
    ELSE Returned(<<DeleteArtifactResponse(TRUE, <<>>)>>, NoError,
                  g.log \o DriverCall("Delete"), g.driver, g.artifact)

\* artifactServer.Delete
Delete(artifact, env, res) ==
    DeleteRespond(getDriver(artifact, env), res)

\* A ListObjects that answers with whatever the Driver returned, names and
\* error side by side. C33 tells it from the code.
ListObjectsKeepsObjects(g, res) ==
    IF IsError(g.err)
    THEN Returned(<<ListObjectsResponse(<<>>, ErrorString(g.err))>>, NoError, g.log, <<>>, <<>>)
    ELSE Returned(<<ListObjectsResponse(res.objects, ErrorString(res.err))>>, NoError,
                  g.log \o DriverCall("ListObjects"), g.driver, g.artifact)

\* A ListObjects that returns getDriver's error as the call's error, with no
\* response. C8 tells it from the code.
ListObjectsReturnsError(g, res) ==
    IF IsError(g.err)
    THEN Returned(<<>>, g.err, g.log, <<>>, <<>>)
    ELSE IF IsError(res.err)
    THEN Returned(<<ListObjectsResponse(<<>>, ErrorString(res.err))>>, NoError,
                  g.log \o DriverCall("ListObjects"), g.driver, g.artifact)
    ELSE Returned(<<ListObjectsResponse(res.objects, <<>>)>>, NoError,
                  g.log \o DriverCall("ListObjects"), g.driver, g.artifact)

\* artifactServer.ListObjects from getDriver's return (g) on: the error of getDriver
\* or of driver.ListObjects (res) is put in the response, never returned.
ListObjectsRespond(g, res) ==
    IF IsError(g.err)
    THEN Returned(<<ListObjectsResponse(<<>>, ErrorString(g.err))>>, NoError, g.log, <<>>, <<>>)
    ELSE IF IsError(res.err)
    THEN Returned(<<ListObjectsResponse(<<>>, ErrorString(res.err))>>, NoError,
                  g.log \o DriverCall("ListObjects"), g.driver, g.artifact)
    ELSE Returned(<<ListObjectsResponse(res.objects, <<>>)>>, NoError,
                  g.log \o DriverCall("ListObjects"), g.driver, g.artifact)

\* artifactServer.ListObjects
ListObjects(artifact, env, res) ==
    ListObjectsRespond(getDriver(artifact, env), res)

\* An IsDirectory that returns the Driver's error as the call's error, with
\* no response. C1 tells it from the code.
IsDirectoryReturnsError(g, res) ==
    IF IsError(g.err)
    THEN Returned(<<IsDirectoryResponse(FALSE, ErrorString(g.err))>>, NoError, g.log, <<>>, <<>>)
    ELSE IF IsError(res.err)
    THEN Returned(<<>>, StatusError("Internal", ErrorString(res.err)),
                  g.log \o DriverCall("IsDirectory"), g.driver, g.artifact)
    ELSE Returned(<<IsDirectoryResponse(res.isDir, <<>>)>>, NoError,
                  g.log \o DriverCall("IsDirectory"), g.driver, g.artifact)

\* artifactServer.IsDirectory from getDriver's return (g) on: the error of getDriver
\* or of driver.IsDirectory (res) is put in the response, never returned.
IsDirectoryRespond(g, res) ==
    IF IsError(g.err)
    THEN Returned(<<IsDirectoryResponse(FALSE, ErrorString(g.err))>>, NoError, g.log, <<>>, <<>>)
    ELSE IF IsError(res.err)
    THEN Returned(<<IsDirectoryResponse(FALSE, ErrorString(res.err))>>, NoError,
                  g.log \o DriverCall("IsDirectory"), g.driver, g.artifact)
    ELSE Returned(<<IsDirectoryResponse(res.isDir, <<>>)>>, NoError,
                  g.log \o DriverCall("IsDirectory"), g.driver, g.artifact)

\* artifactServer.IsDirectory
IsDirectory(artifact, env, res) ==
    IsDirectoryRespond(getDriver(artifact, env), res)

UnaryOps == {"Load", "Save", "Delete", "ListObjects", "IsDirectory"}
Ops == UnaryOps \cup {"OpenStream"}

\* A server whose Save is answered by the handler of Delete. C29 tells it
\* from the code.
UnaryHandlerCrossed(op, artifact, env, res) ==
    CASE op = "Load" -> Load(artifact, env, res)
      [] op = "Save" -> Delete(artifact, env, res)
      [] op = "Delete" -> Delete(artifact, env, res)
      [] op = "ListObjects" -> ListObjects(artifact, env, res)
      [] op = "IsDirectory" -> IsDirectory(artifact, env, res)

\* The handler the server registered for a unary operation.
UnaryHandler(op, artifact, env, res) ==
    CASE op = "Load" -> Load(artifact, env, res)
      [] op = "Save" -> Save(artifact, env, res)
      [] op = "Delete" -> Delete(artifact, env, res)
      [] op = "ListObjects" -> ListObjects(artifact, env, res)
      [] op = "IsDirectory" -> IsDirectory(artifact, env, res)

\* ------------------------------------------------------------------- state

VARIABLES
    mainPc,     \* where main() is: "parseArgs", "startServer", "verifySocket",
                \* "setupSignalHandling", "Serve", "serving", "exited"
    exitCode,   \* the process's exit status once exited, else -1
    socket,     \* what is at the socket path: "absent", "stale", "fresh",
                \* or "nodir" when the directory to hold it does not exist
    listener,   \* the Unix listener: "none", "open", "closed"
    notify,     \* signal.Notify(sigCh, SIGTERM) has been called
    sigCh,      \* signals buffered in sigCh (capacity 1)
    sigPc,      \* the signal goroutine: "none", "waiting", "stopping", "done"
    quit,       \* GracefulStop has begun on the server
    conns,      \* connections accepted and still open
    call,       \* the call of each slot
    draining,   \* the slots in flight when GracefulStop began
    startup,    \* main's startup: len(os.Args) and the errors of os.Remove, net.Listen, os.Stat
    unit,       \* a function of pkg/s3 applied on its own, with what it returned
    test        \* the tests of package main that start a server, each with its own server

vars == <<mainPc, exitCode, socket, listener, notify, sigCh, sigPc, quit, conns,
          call, draining, startup, unit, test>>

lifecycleVars == <<mainPc, exitCode, socket, listener, notify, sigCh, sigPc, quit,
                   conns, draining, startup, unit, test>>

CallIds == 1..MaxCalls

\* A slot with no call.  env and res record what the call drew from outside:
\* the environment of its resolution and the Driver's answer.
IdleCall ==
    [pc |-> "idle", op |-> "", artifact |-> NilArtifact, resp |-> <<>>,
     err |-> NoError, log |-> <<>>, driver |-> <<>>, argo |-> <<>>,
     src |-> <<>>, pos |-> 0, idle |-> 0, reader |-> "none", closes |-> 0,
     readErr |-> "nil", sent |-> <<>>, sendFailed |-> FALSE,
     env |-> <<>>, res |-> <<>>, cancelled |-> FALSE]

\* No function of pkg/s3 has been applied on its own.
NoUnit == [pc |-> "idle"]

\* A call is in flight from its dispatch until its handler has returned.
InFlight(c) == call[c].pc \notin {"idle", "done", "aborted"}

\* The process ends: what was in flight is cut off.
Exit(code) ==
    /\ mainPc' = "exited"
    /\ exitCode' = code
    /\ call' = [c \in CallIds |->
                  IF InFlight(c) THEN [call[c] EXCEPT !.pc = "aborted"] ELSE call[c]]
    /\ unit' = unit
    /\ test' = test

\* ------------------------------------------------------------------ inputs

Bytes == {0, 1}

SeqsUpTo(S, n) == UNION {[1..k -> S] : k \in 0..n}

Min(a, b) == IF a < b THEN a ELSE b

\* What a call draws from outside: the operation and the artifact of the
\* request, the environment of its resolution, the byte source the Driver
\* opens and how many of its reads may return (0, nil).
Scope(ops, artifacts, envs, sources, idleReads) ==
    [ops |-> ops, artifacts |-> artifacts, envs |-> envs, sources |-> sources,
     idleReads |-> idleReads]

DriverFailure == PlainError("driver: operation failed")

\* The answers of the Driver method of each unary operation; a failing
\* ListObjects or IsDirectory may come with a value beside its error.
DriverResults(op) ==
    CASE op \in {"Load", "Save", "Delete"} ->
           {DriverResult(NoError, <<>>, FALSE), DriverResult(DriverFailure, <<>>, FALSE)}
      [] op = "ListObjects" ->
           {DriverResult(NoError, <<>>, FALSE), DriverResult(NoError, <<"o1", "o2">>, FALSE),
            DriverResult(DriverFailure, <<>>, FALSE), DriverResult(DriverFailure, <<"o1">>, FALSE)}
      [] op = "IsDirectory" ->
           {DriverResult(NoError, <<>>, TRUE), DriverResult(NoError, <<>>, FALSE),
            DriverResult(DriverFailure, <<>>, FALSE), DriverResult(DriverFailure, <<>>, TRUE)}

SecretNames == {"s3-creds"}
SecretKeys == {"accessKey", "secretKey", "sessionToken"}

Selector(key) == RefValue("object", <<"s3-creds">>, <<key>>, <<>>, FALSE)

\* A document with the given credential settings and nothing else wrong.
Document(wellFormed, unknown, insecure, useSDKCreds, access, secret, session) ==
    Blob(FALSE, wellFormed, unknown, <<"my-bucket">>, <<"minio:9000">>, <<>>, <<>>,
         insecure, useSDKCreds, access, secret, session)

SDKBlob == Document(TRUE, FALSE, <<>>, <<TRUE>>, <<>>, <<>>, <<>>)

\* The blobs of single calls: every combination of the credential fields,
\* well-formed or not, with or without a key outside the schema.
CallBlobs ==
    {EmptyBlob} \cup
    {Document(w, u, <<>>, sdk, a, sk, st) :
        w \in BOOLEAN, u \in BOOLEAN, sdk \in Opt(BOOLEAN),
        a \in {<<>>, <<Selector("accessKey")>>,
               <<RefValue("scalar", <<>>, <<>>, <<>>, FALSE)>>},
        sk \in {<<>>, <<Selector("secretKey")>>},
        st \in {<<>>, <<Selector("sessionToken")>>}}

ArtifactsOf(blobs) ==
    {NilArtifact, Artifact(<<>>)} \cup
    {Artifact(<<PluginLocation(b, "path/to/object")>>) : b \in blobs}

\* A secret that exists, with the values of its keys (nil: no such key).
Secret(access, secret, session) ==
    [status |-> "ok",
     data |-> [k \in SecretKeys |->
                 CASE k = "accessKey" -> access
                   [] k = "secretKey" -> secret
                   [] k = "sessionToken" -> session]]

GoodEnv == Env(TRUE, TRUE, <<"argo">>, [n \in SecretNames |-> Secret(<<"AKIA">>, <<"wJal">>, <<"tok">>)])

\* The environments of single calls: no cluster, no client, no namespace
\* file, and a secret store that answers, lacks the secret, fails, lacks
\* one of the keys, or holds an empty value under a key.
CallEnvs ==
    {Env(FALSE, TRUE, <<"argo">>, GoodEnv.secrets),
     Env(TRUE, FALSE, <<"argo">>, GoodEnv.secrets),
     Env(TRUE, TRUE, <<>>, GoodEnv.secrets)}
    \cup {Env(TRUE, TRUE, <<"argo">>, [n \in SecretNames |-> [status |-> st, data |-> <<>>]]) :
            st \in {"notFound", "error"}}
    \cup {Env(TRUE, TRUE, <<"argo">>, [n \in SecretNames |-> Secret(a, sk, st)]) :
            a \in {<<>>, <<"AKIA">>}, sk \in {<<>>, <<"wJal">>}, st \in {<<>>, <<"tok">>}}
    \cup {Env(TRUE, TRUE, <<"argo">>,
               [n \in SecretNames |-> Secret(<<"">>, <<"wJal">>, <<"tok">>)])}

\* A single call: every artifact shape, environment and source.
CallScope ==
    Scope(Ops, ArtifactsOf(CallBlobs), CallEnvs, SeqsUpTo(Bytes, MaxLen), MaxIdleReads)

\* A secret store whose values were rotated.
RotatedEnv == Env(TRUE, TRUE, <<"argo">>, [n \in SecretNames |-> Secret(<<"AKIB">>, <<"xKbm">>, <<"tok2">>)])

\* A document that refers to both keys in the store.
KeysBlob == Document(TRUE, FALSE, <<>>, <<>>, <<Selector("accessKey")>>, <<Selector("secretKey")>>, <<>>)

\* Calls side by side: two configurations, the store before and after a
\* rotation, an empty object.
PairScope ==
    Scope({"Load", "OpenStream"},
          {Artifact(<<PluginLocation(KeysBlob, "path/to/object")>>),
           Artifact(<<PluginLocation(SDKBlob, "path/to/other")>>)},
          {GoodEnv, RotatedEnv}, {<<>>}, 0)

\* A call that its client may cancel: every source, few configurations.
StreamScope ==
    Scope({"Load", "OpenStream"},
          {NilArtifact,
           Artifact(<<PluginLocation(KeysBlob, "path/to/object")>>),
           Artifact(<<PluginLocation(SDKBlob, "path/to/other")>>)},
          {GoodEnv}, SeqsUpTo(Bytes, MaxLen), MaxIdleReads)

\* Concurrent calls under the lifecycle: a few of each.
ServerScope ==
    Scope({"Load", "OpenStream"},
          {NilArtifact, Artifact(<<PluginLocation(SDKBlob, "path/to/object")>>)},
          {GoodEnv}, {<<0>>}, 0)

\* --------------------------------------------------------------- lifecycle

\* main() goes on to its next statement.
Goto(pc) == mainPc' = pc /\ exitCode' = exitCode /\ call' = call /\ unit' = unit /\ test' = test

\* logger.WithFatal().Error(...): the process exits with status 1.
Fatal == Exit(1)

\* What main has seen of its startup before it runs: len(os.Args) not yet
\* read (0), and the errors of os.Remove, net.Listen and os.Stat not yet
\* returned ("none").
NotStarted == [lenArgs |-> 0, removeErr |-> "none", listenErr |-> "none", statErr |-> "none"]

\* A parseArgs that is content with at least one argument. C23 tells it from
\* the code.
parseArgsAcceptsMore(lenArgs) ==
    /\ IF lenArgs < 2 THEN Fatal ELSE Goto("startServer")
    /\ startup' = [startup EXCEPT !.lenArgs = lenArgs]

\* What parseArgs does with len(os.Args), the program name included: any
\* count but 2 is a fatal usage error, 2 hands os.Args[1] to main.
parseArgsReturns(lenArgs) ==
    /\ IF lenArgs # 2 THEN Fatal ELSE Goto("startServer")
    /\ startup' = [startup EXCEPT !.lenArgs = lenArgs]

\* parseArgs: any argument count but one socket path is a fatal usage error.
parseArgs ==
    /\ mainPc = "parseArgs"
    /\ \E lenArgs \in 1..3 : parseArgsReturns(lenArgs)
    /\ UNCHANGED <<socket, listener, notify, sigCh, sigPc, quit, conns,
                   draining>>

\* A startServer that goes on to net.Listen whatever os.Remove returned. C20
\* tells it from the code.
startServerIgnoresRemove(removeErr, listenOK) ==
    IF ~listenOK
    THEN /\ Fatal
         /\ startup' = [startup EXCEPT !.removeErr = removeErr, !.listenErr = "fail"]
         /\ UNCHANGED <<socket, listener>>
    ELSE /\ Goto("verifySocket")
         /\ startup' = [startup EXCEPT !.removeErr = removeErr, !.listenErr = "nil"]
         /\ socket' = "fresh"
         /\ listener' = "open"

\* What startServer does with the error of os.Remove and the outcome of
\* net.Listen: a removal error other than absence is returned before the
\* listener is created, a listen error after the path was cleared.
startServerReturns(removeErr, listenOK) ==
    IF removeErr = "other"
    THEN /\ Fatal
         /\ startup' = [startup EXCEPT !.removeErr = removeErr]
         /\ UNCHANGED <<socket, listener>>
    ELSE IF ~listenOK
    THEN /\ Fatal
         /\ startup' = [startup EXCEPT !.removeErr = removeErr, !.listenErr = "fail"]
         /\ socket' = IF socket = "nodir" THEN "nodir" ELSE "absent"
         /\ UNCHANGED listener
    ELSE /\ Goto("verifySocket")
         /\ startup' = [startup EXCEPT !.removeErr = removeErr, !.listenErr = "nil"]
         /\ socket' = "fresh"
         /\ listener' = "open"

\* startServer: os.Remove of the socket path (absence is no error), then
\* net.Listen, which creates the socket; either failure is returned to main,
\* which ends fatally.
startServer ==
    /\ mainPc = "startServer"
    /\ \E removeErr \in {"nil", "notExist", "other"}, listenOK \in BOOLEAN :
         /\ removeErr = "nil" => socket = "stale"
         /\ removeErr = "notExist" => socket \in {"absent", "nodir"}
         /\ listenOK => socket # "nodir"
         /\ startServerReturns(removeErr, listenOK)
    /\ UNCHANGED <<notify, sigCh, sigPc, quit, conns, draining>>

\* A verifySocket that logs the failure of os.Stat and lets main go on. C21
\* tells it from the code.
verifySocketIgnoresStat(statOK) ==
    /\ Goto("setupSignalHandling")
    /\ startup' = [startup EXCEPT !.removeErr = "none", !.listenErr = "none", !.statErr = IF statOK THEN "nil" ELSE "fail"]

\* What verifySocket does with the outcome of os.Stat: a failure is fatal,
\* a success is logged and main goes on.  startServer's locals are out of
\* scope by now.
verifySocketReturns(statOK) ==
    /\ IF statOK THEN Goto("setupSignalHandling") ELSE Fatal
    /\ startup' = [startup EXCEPT !.removeErr = "none", !.listenErr = "none", !.statErr = IF statOK THEN "nil" ELSE "fail"]

\* verifySocket: os.Stat of the socket; a failure is fatal.
verifySocket ==
    /\ mainPc = "verifySocket"
    /\ \E statOK \in BOOLEAN : verifySocketReturns(statOK)
    /\ UNCHANGED <<socket, listener, notify, sigCh, sigPc, quit, conns, draining>>

\* setupSignalHandling: signal.Notify, and the goroutine that waits on sigCh.
setupSignalHandling ==
    /\ mainPc = "setupSignalHandling"
    /\ Goto("Serve")
    /\ notify' = TRUE
    /\ sigPc' = "waiting"
    /\ UNCHANGED <<startup, socket, listener, sigCh, quit, conns, draining>>

\* server.Serve(listener) is entered: on a server that GracefulStop already
\* stopped it returns ErrServerStopped, which main treats as fatal.
Serve ==
    /\ mainPc = "Serve"
    /\ IF quit THEN Fatal ELSE Goto("serving")
    /\ UNCHANGED <<startup, socket, listener, notify, sigCh, sigPc, quit, conns,
                   draining>>

\* Serve returns an error of the accept loop: "Failed to serve", fatal.
ServeFails ==
    /\ mainPc = "serving"
    /\ ~quit
    /\ Fatal
    /\ UNCHANGED <<startup, socket, listener, notify, sigCh, sigPc, quit, conns,
                   draining>>

\* Serve returns nil once GracefulStop is done; main returns, the deferred
\* listener.Close() runs and the process exits with status 0.
ServeReturns ==
    /\ mainPc = "serving"
    /\ sigPc = "done"
    /\ Exit(0)
    /\ listener' = "closed"
    /\ UNCHANGED <<startup, socket, notify, sigCh, sigPc, quit, conns, draining>>

\* A process whose handler is gone once the first signal is taken
\* (signal.Stop): a further SIGTERM ends it. C35 tells it from the code.
SigtermKillsAfterFirst ==
    /\ mainPc # "exited"
    /\ IF notify /\ sigPc = "waiting"
       THEN Goto(mainPc) /\ sigCh' = Min(1, sigCh + 1)
       ELSE Exit(143) /\ UNCHANGED sigCh
    /\ UNCHANGED <<startup, socket, listener, notify, sigPc, quit, conns, draining>>

\* A SIGTERM reaches the process: before signal.Notify it ends the process
\* (status 143); after it, it is queued on sigCh unless the buffer is full.
Sigterm ==
    /\ mainPc # "exited"
    /\ IF notify
       THEN Goto(mainPc) /\ sigCh' = Min(1, sigCh + 1)
       ELSE Exit(143) /\ UNCHANGED sigCh
    /\ UNCHANGED <<startup, socket, listener, notify, sigPc, quit, conns, draining>>

\* A server that goes on taking connections and calls after GracefulStop.
\* C5 tells it from the code.
AcceptingWhileServing == mainPc = "serving"

\* The server takes new connections and new calls.
Accepting == mainPc = "serving" /\ ~quit

\* A stop that does not wait for the calls in flight (server.Stop). C4 tells
\* it from the code.
StopsAtOnce == TRUE

\* GracefulStop may return: no call is in flight any more.
Drained == \A c \in CallIds : ~InFlight(c)

\* The signal goroutine receives from sigCh and calls server.GracefulStop():
\* the listener is closed and no new connection or call is taken.
GracefulStop ==
    /\ mainPc # "exited"
    /\ sigPc = "waiting"
    /\ sigCh > 0
    /\ sigCh' = sigCh - 1
    /\ sigPc' = "stopping"
    /\ quit' = TRUE
    /\ listener' = IF listener = "open" THEN "closed" ELSE listener
    /\ draining' = {c \in CallIds : InFlight(c)}
    /\ Goto(mainPc)
    /\ UNCHANGED <<startup, socket, notify, conns>>

\* GracefulStop returns once the pending calls are finished and the
\* connections closed; the goroutine ends.
GracefulStopReturns ==
    /\ mainPc # "exited"
    /\ sigPc = "stopping"
    /\ Drained
    /\ sigPc' = "done"
    /\ conns' = 0
    /\ Goto(mainPc)
    /\ UNCHANGED <<startup, socket, listener, notify, sigCh, quit, draining>>

\* The listener accepts a connection.
AcceptConn ==
    /\ Accepting
    /\ listener = "open"
    /\ conns < MaxConns
    /\ conns' = conns + 1
    /\ Goto(mainPc)
    /\ UNCHANGED <<startup, socket, listener, notify, sigCh, sigPc, quit, draining>>

\* ------------------------------------------------------------------- calls

\* A request arrives on a connection and its handler is started.
Dispatch(c, S) ==
    /\ Accepting
    /\ conns > 0
    /\ call[c].pc = "idle"
    /\ \E op \in S.ops, a \in S.artifacts :
         call' = [call EXCEPT ![c] = [IdleCall EXCEPT !.pc = "running", !.op = op,
                                                         !.artifact = a]]
    /\ UNCHANGED lifecycleVars

\* The handler of slot c moves the call to record r.
Step(c, r) ==
    /\ call' = [call EXCEPT ![c] = r]
    /\ UNCHANGED lifecycleVars

\* The call once its handler has returned r.
Return(cl, r) ==
    [cl EXCEPT !.pc = "done", !.resp = r.resp, !.err = r.err, !.log = r.log,
               !.driver = r.driver, !.argo = r.argo]

\* A server whose handlers work on the request that the first slot holds.
\* C24 tells it from the code.
UnaryCallSharedDriver(c, S, op) ==
    /\ mainPc = "serving"
    /\ call[c].pc = "running"
    /\ call[c].op = op
    /\ \E env \in S.envs, res \in DriverResults(op) :
         Step(c, Return([call[c] EXCEPT !.env = <<env>>, !.res = <<res>>],
                        UnaryHandler(op, call[1].artifact, env, res)))

\* A unary handler runs from its first statement to its return.
UnaryCall(c, S, op) ==
    /\ mainPc = "serving"
    /\ call[c].pc = "running"
    /\ call[c].op = op
    /\ \E env \in S.envs, res \in DriverResults(op) :
         Step(c, Return([call[c] EXCEPT !.env = <<env>>, !.res = <<res>>],
                        UnaryHandler(op, call[c].artifact, env, res)))

LoadCall(c, S) == UnaryCall(c, S, "Load")
SaveCall(c, S) == UnaryCall(c, S, "Save")
DeleteCall(c, S) == UnaryCall(c, S, "Delete")
ListObjectsCall(c, S) == UnaryCall(c, S, "ListObjects")
IsDirectoryCall(c, S) == UnaryCall(c, S, "IsDirectory")

\* ------------------------------------------------------------- OpenStream

OpenStreamResponse(data, isEnd) == [Data |-> data, IsEnd |-> isEnd]

\* OpenStream from getDriver's return (g) up to "defer reader.Close()": the
\* error of getDriver is returned as it is, that of the Driver's OpenStream
\* as an Internal status; open is what the Driver answers, an error or a
\* byte source.
OpenStreamOpened(cl, g, open) ==
    IF IsError(g.err)
    THEN [cl EXCEPT !.pc = "done", !.err = g.err, !.log = g.log]
    ELSE IF IsError(open.err)
    THEN [cl EXCEPT !.pc = "done",
                    !.err = StatusError("Internal", ErrorString(open.err)),
                    !.log = g.log \o DriverCall("OpenStream"),
                    !.driver = g.driver, !.argo = g.artifact]
    ELSE [cl EXCEPT !.pc = "reading", !.log = g.log \o DriverCall("OpenStream"),
                    !.driver = g.driver, !.argo = g.artifact,
                    !.reader = "open", !.src = open.src]

\* An OpenStream that takes its driver from a cache filled by an earlier
\* call: no lookup is made and the credentials are those of then. C25 tells
\* it from the code.
OpenStreamOpenCached(cl, env, open) ==
    OpenStreamOpened(cl, [getDriver(cl.artifact, GoodEnv) EXCEPT !.log = <<>>], open)

\* artifactServer.OpenStream up to its read loop.
OpenStreamOpen(cl, env, open) == OpenStreamOpened(cl, getDriver(cl.artifact, env), open)

\* A handler without "defer reader.Close()". C27 tells it from the code.
LeaveReaderOpen(cl) == cl

\* The deferred reader.Close() runs as the handler returns.
CloseReader(cl) == [cl EXCEPT !.reader = "closed", !.closes = cl.closes + 1]

\* What reader.Read(buffer) may return with pos bytes of src consumed: n
\* bytes of what is left, at most the buffer, and nil, io.EOF or a failure;
\* io.EOF only once everything is consumed.
ReadResults(cl, idleReads) ==
    LET left == Len(cl.src) - cl.pos
    IN  {r \in [n : 0..Min(left, bufferLen), err : {"nil", "EOF", "fail"}] :
           /\ r.err = "EOF" => r.n = left
           /\ (r.n = 0 /\ r.err = "nil") => cl.idle < idleReads}

\* After a read with error rerr the loop goes on or breaks: "if err != nil".
LoopBreaks(rerr) == rerr # "nil"

\* A read loop that looks at the read error before it sends: the bytes that
\* come with the error are dropped. C2 tells it from the code.
OpenStreamLoopErrFirst(cl, r, sendOK) ==
    LET read == [cl EXCEPT !.pos = cl.pos + r.n, !.readErr = r.err,
                           !.idle = IF r.n = 0 /\ r.err = "nil" THEN cl.idle + 1 ELSE cl.idle,
                           !.log = cl.log \o <<Event("Read", "", "")>>]
    IN  IF LoopBreaks(r.err)
        THEN [read EXCEPT !.pc = "endMarker"]
        ELSE IF r.n > 0 /\ ~sendOK
        THEN CloseReader([read EXCEPT !.pc = "done", !.sendFailed = TRUE,
                                      !.err = StatusError("Internal", <<"send failed">>)])
        ELSE IF r.n > 0
        THEN [read EXCEPT !.sent = Append(cl.sent,
                  OpenStreamResponse(SubSeq(cl.src, cl.pos + 1, cl.pos + r.n), FALSE))]
        ELSE read

\* A read loop without "if n > 0": every read is followed by a Send, of an
\* empty chunk when nothing was read. C28 tells it from the code.
OpenStreamLoopSendsEmpty(cl, r, sendOK) ==
    LET chunk == SubSeq(cl.src, cl.pos + 1, cl.pos + r.n)
        read == [cl EXCEPT !.pos = cl.pos + r.n, !.readErr = r.err,
                           !.idle = IF r.n = 0 /\ r.err = "nil" THEN cl.idle + 1 ELSE cl.idle,
                           !.log = cl.log \o <<Event("Read", "", "")>>]
        sentChunk == [read EXCEPT !.sent = Append(cl.sent, OpenStreamResponse(chunk, FALSE))]
    IN  IF ~sendOK
        THEN CloseReader([read EXCEPT !.pc = "done", !.sendFailed = TRUE,
                                      !.err = StatusError("Internal", <<"send failed">>)])
        ELSE IF LoopBreaks(r.err)
        THEN [sentChunk EXCEPT !.pc = "endMarker"]
        ELSE sentChunk

\* A read loop that logs a failed send and goes on. C37 tells it from the
\* code.
OpenStreamLoopGoesOn(cl, r, sendOK) ==
    LET chunk == SubSeq(cl.src, cl.pos + 1, cl.pos + r.n)
        read == [cl EXCEPT !.pos = cl.pos + r.n, !.readErr = r.err,
                           !.idle = IF r.n = 0 /\ r.err = "nil" THEN cl.idle + 1 ELSE cl.idle,
                           !.log = cl.log \o <<Event("Read", "", "")>>]
        sentChunk == IF r.n > 0 /\ sendOK
                     THEN [read EXCEPT !.sent = Append(cl.sent, OpenStreamResponse(chunk, FALSE))]
                     ELSE IF r.n > 0
                     THEN [read EXCEPT !.sendFailed = TRUE]
                     ELSE read
    IN  IF LoopBreaks(r.err)
        THEN [sentChunk EXCEPT !.pc = "endMarker"]
        ELSE sentChunk

\* One iteration of the read loop: the bytes read are sent, a failed send
\* returns an Internal status, a read error breaks out of the loop.
OpenStreamLoop(cl, r, sendOK) ==
    LET chunk == SubSeq(cl.src, cl.pos + 1, cl.pos + r.n)
        read == [cl EXCEPT !.pos = cl.pos + r.n, !.readErr = r.err,
                           !.idle = IF r.n = 0 /\ r.err = "nil" THEN cl.idle + 1 ELSE cl.idle,
                           !.log = cl.log \o <<Event("Read", "", "")>>]
        sentChunk == IF r.n > 0
                     THEN [read EXCEPT !.sent = Append(cl.sent, OpenStreamResponse(chunk, FALSE))]
                     ELSE read
    IN  IF r.n > 0 /\ ~sendOK
        THEN CloseReader([read EXCEPT !.pc = "done", !.sendFailed = TRUE,
                                      !.err = StatusError("Internal", <<"send failed">>)])
        ELSE IF LoopBreaks(r.err)
        THEN [sentChunk EXCEPT !.pc = "endMarker"]
        ELSE sentChunk

\* An end of stream that sends its marker twice. C38 tells it from the code.
OpenStreamEndTwice(cl, sendOK) ==
    CloseReader([cl EXCEPT
        !.pc = "done",
        !.sent = IF sendOK
                 THEN cl.sent \o <<OpenStreamResponse(<<>>, TRUE), OpenStreamResponse(<<>>, TRUE)>>
                 ELSE cl.sent,
        !.sendFailed = ~sendOK,
        !.err = IF sendOK THEN NoError ELSE StatusError("Unavailable", <<"send failed">>)])

\* After the loop: the end marker is sent and Send's result is returned.
OpenStreamEnd(cl, sendOK) ==
    CloseReader([cl EXCEPT
        !.pc = "done",
        !.sent = IF sendOK THEN Append(cl.sent, OpenStreamResponse(<<>>, TRUE)) ELSE cl.sent,
        !.sendFailed = ~sendOK,
        !.err = IF sendOK THEN NoError ELSE StatusError("Unavailable", <<"send failed">>)])

\* The handler starts: the driver is built and the stream opened.
OpenStreamCall(c, S) ==
    /\ mainPc = "serving"
    /\ call[c].pc = "running"
    /\ call[c].op = "OpenStream"
    /\ \E env \in S.envs,
          open \in {[err |-> DriverFailure, src |-> <<>>]}
                   \cup {[err |-> NoError, src |-> s] : s \in S.sources} :
         Step(c, OpenStreamOpen([call[c] EXCEPT !.env = <<env>>, !.res = <<open>>],
                                env, open))

\* The handler reads once and sends what it read.  Send fails on a stream
\* whose context is cancelled.
StreamRead(c, S) ==
    /\ mainPc = "serving"
    /\ call[c].pc = "reading"
    /\ \E r \in ReadResults(call[c], S.idleReads), sendOK \in BOOLEAN :
         /\ call[c].cancelled => ~sendOK
         /\ Step(c, OpenStreamLoop(call[c], r, sendOK))

\* The handler sends the end marker and returns.
StreamEnd(c) ==
    /\ mainPc = "serving"
    /\ call[c].pc = "endMarker"
    /\ \E sendOK \in BOOLEAN :
         /\ call[c].cancelled => ~sendOK
         /\ Step(c, OpenStreamEnd(call[c], sendOK))

\* The client cancels the call or its connection goes away while the handler
\* runs: gRPC cancels the context of the call.
Cancel(c) ==
    /\ mainPc = "serving"
    /\ InFlight(c)
    /\ ~call[c].cancelled
    /\ Step(c, [call[c] EXCEPT !.cancelled = TRUE])

\* The response is with the client and the slot is free for another call,
\* while the server takes calls.
Retire(c) ==
    /\ Accepting
    /\ call[c].pc = "done"
    /\ call' = [call EXCEPT ![c] = IdleCall]
    /\ UNCHANGED lifecycleVars

\* ---------------------------------------------------------- specifications

CallStep(c, S) ==
    \/ Dispatch(c, S)
    \/ LoadCall(c, S)
    \/ SaveCall(c, S)
    \/ DeleteCall(c, S)
    \/ ListObjectsCall(c, S)
    \/ IsDirectoryCall(c, S)
    \/ OpenStreamCall(c, S)
    \/ StreamRead(c, S)
    \/ StreamEnd(c)
    \/ Retire(c)

\* ------------------------------------------- pkg/s3 functions on their own

\* A string field as the serializer writes it: left out when empty.
OmitEmpty(v) == IF v = "" THEN <<>> ELSE <<v>>

\* A secret reference as the serializer writes it: nothing for nil, else a
\* mapping with name (left out when empty), key (always) and optional (left
\* out when nil).
MarshalSelector(p) ==
    IF IsNil(p) THEN <<>>
    ELSE <<RefValue("object", OmitEmpty(Deref(p).Name), <<Deref(p).Key>>,
                    Deref(p).Optional, FALSE)>>

\* The document the serializer writes for a configuration: a well-formed
\* mapping, never the empty string, with the fields that are set.
Marshal(config) ==
    Blob(FALSE, TRUE, FALSE, OmitEmpty(config.Bucket), OmitEmpty(config.Endpoint),
         OmitEmpty(config.Region), OmitEmpty(config.RoleARN), config.Insecure,
         IF config.UseSDKCreds THEN <<TRUE>> ELSE <<>>,
         MarshalSelector(config.AccessKeySecret),
         MarshalSelector(config.SecretKeySecret),
         MarshalSelector(config.SessionTokenSecret))

\* The values a blob may give a secret reference: none, a scalar, or a
\* mapping with or without name, key, optional and a key outside the schema.
RefValues ==
    {<<>>, <<RefValue("scalar", <<>>, <<>>, <<>>, FALSE)>>}
    \cup {<<RefValue("object", n, k, o, x)>> :
            n \in Opt(SecretNames), k \in Opt({"accessKey"}),
            o \in {<<>>, <<TRUE>>}, x \in BOOLEAN}

\* The blobs parsePluginConfiguration is applied to: the empty string and
\* documents that set or leave out each known field, well-formed or not,
\* with or without a key outside the schema.
ParseBlobs ==
    {EmptyBlob} \cup
    {Blob(FALSE, w, u, bk, ep, rg, ra, i, sdk, a, sk, st) :
        w \in BOOLEAN, u \in BOOLEAN,
        bk \in Opt({"my-bucket"}), ep \in Opt({"minio:9000"}),
        rg \in Opt({"us-east-1"}), ra \in Opt({"arn:aws:iam::1:role/r"}),
        i \in Opt(BOOLEAN), sdk \in Opt(BOOLEAN),
        a \in RefValues,
        sk \in {<<>>, <<Selector("secretKey")>>,
                <<RefValue("object", <<"s3-creds">>, <<"secretKey">>, <<>>, TRUE)>>},
        st \in {<<>>, <<Selector("sessionToken")>>}}

\* The environments getArtifactDriver is applied in on its own.
UnitEnvs == {GoodEnv, Env(FALSE, TRUE, <<"argo">>, GoodEnv.secrets)}

\* A function applied on its own: the blob, what parsePluginConfiguration
\* returned for it, then either the serialized configuration with what
\* parsing it again returned, or the environment with what getArtifactDriver
\* returned.
Unit(pc, blob, parsed, text, again, env, out) ==
    [pc |-> pc, blob |-> blob, parsed |-> parsed, text |-> text, again |-> again,
     env |-> env, out |-> out]

\* parsePluginConfiguration(ctx, configYAML)
ParseUnit ==
    /\ unit.pc = "idle"
    /\ \E b \in ParseBlobs :
         unit' = Unit("parsed", b, parsePluginConfiguration(b), <<>>, <<>>, <<>>, <<>>)
    /\ UNCHANGED <<mainPc, exitCode, socket, listener, notify, sigCh, sigPc, quit,
                   conns, call, draining, startup, test>>

\* The parsed configuration is serialized and the text parsed again.
MarshalUnit ==
    /\ unit.pc = "parsed"
    /\ ~IsError(unit.parsed.err)
    /\ unit' = Unit("marshalled", unit.blob, unit.parsed,
                    <<Marshal(Deref(unit.parsed.config))>>,
                    <<parsePluginConfiguration(Marshal(Deref(unit.parsed.config)))>>,
                    <<>>, <<>>)
    /\ UNCHANGED <<mainPc, exitCode, socket, listener, notify, sigCh, sigPc, quit,
                   conns, call, draining, startup, test>>

\* getArtifactDriver(ctx, pluginConfig) on the parsed configuration.
ResolveUnit ==
    /\ unit.pc = "parsed"
    /\ ~IsError(unit.parsed.err)
    /\ \E env \in UnitEnvs :
         unit' = Unit("resolved", unit.blob, unit.parsed, <<>>, <<>>, <<env>>,
                      <<getArtifactDriver(Deref(unit.parsed.config), env)>>)
    /\ UNCHANGED <<mainPc, exitCode, socket, listener, notify, sigCh, sigPc, quit,
                   conns, call, draining, startup, test>>

\* S3Config: a resolved configuration, credentials included.
S3Config(endpoint, region, secure, accessKey, secretKey, sessionToken, roleARN, useSDKCreds, bucket, key) ==
    [Endpoint |-> endpoint, Region |-> region, Secure |-> secure,
     AccessKey |-> accessKey, SecretKey |-> secretKey, SessionToken |-> sessionToken,
     RoleARN |-> roleARN, UseSDKCreds |-> useSDKCreds, Bucket |-> bucket, Key |-> key]

\* A CreateArtifactDriver that puts each key where the other belongs. C32
\* tells it from the code.
CreateArtifactDriverSwapsKeys(config) ==
    [Endpoint |-> config.Endpoint, Region |-> config.Region, Secure |-> config.Secure,
     AccessKey |-> config.SecretKey, SecretKey |-> config.AccessKey,
     SessionToken |-> config.SessionToken, RoleARN |-> config.RoleARN,
     UseSDKCreds |-> config.UseSDKCreds, Context |-> "background"]

\* CreateArtifactDriver: the driver of a resolved configuration, field by
\* field, with context.Background(); it returns no error.
CreateArtifactDriver(config) ==
    [Endpoint |-> config.Endpoint, Region |-> config.Region, Secure |-> config.Secure,
     AccessKey |-> config.AccessKey, SecretKey |-> config.SecretKey,
     SessionToken |-> config.SessionToken, RoleARN |-> config.RoleARN,
     UseSDKCreds |-> config.UseSDKCreds, Context |-> "background"]

\* The resolved configurations CreateArtifactDriver is applied to: every
\* field set or at its zero value.
ResolvedConfigs ==
    {S3Config(ep, rg, sec, ak, sk, st, ra, sdk, "my-bucket", "path/to/object") :
        ep \in {"", "minio:9000"}, rg \in {"", "us-east-1"}, sec \in BOOLEAN,
        ak \in {"", "AKIA"}, sk \in {"", "wJal"}, st \in {"", "tok"},
        ra \in {"", "arn:aws:iam::1:role/r"}, sdk \in BOOLEAN}

\* CreateArtifactDriver(config) on a resolved configuration: what it was
\* given, what it returned and the outside steps it took (none).
CreateUnit ==
    /\ unit.pc = "idle"
    /\ \E config \in ResolvedConfigs :
         unit' = [pc |-> "created", config |-> config,
                  out |-> <<CreateArtifactDriver(config)>>, log |-> <<>>]
    /\ UNCHANGED <<mainPc, exitCode, socket, listener, notify, sigCh, sigPc, quit,
                   conns, call, draining, startup, test>>

\* ------------------------------------------------------------------- tests

\* The tests of package main that start a server on a socket of their own
\* and dial it: TestArtifactPluginServer_EndToEnd through startServer,
\* TestServerStartAndConnectUnixSocket through net.Listen and grpc.NewServer.
\* Both are marked t.Parallel().
TestNames == {"EndToEnd", "UnixSocket"}

\* A test that is not run.
NoTest ==
    [pc |-> "none", listener |-> "none", stopped |-> FALSE, client |-> "idle",
     connected |-> FALSE, conns |-> 0, serve |-> "none", serveErr |-> "none",
     failed |-> FALSE]

NoTests == [t \in TestNames |-> NoTest]

\* A test about to create its server.  pc is where the test function or its
\* cleanup is, listener and stopped are its server's, client is the state of
\* its grpc.ClientConn, serve is where the goroutine that calls Serve is and
\* serveErr what Serve returned, failed is t.Errorf or t.Fatalf.
NewTest == [NoTest EXCEPT !.pc = "start"]

mainVars == <<mainPc, exitCode, socket, listener, notify, sigCh, sigPc, quit, conns,
              call, draining, startup, unit>>

\* Test t moves to record r.
TestStep(t, r) ==
    /\ test' = [test EXCEPT ![t] = r]
    /\ UNCHANGED mainVars

\* conn.GetState() is connectivity.Idle.
ClientIdle(client) == client \in {"idle", "exiting"}

\* The server is created in a fresh t.TempDir(): nothing is at the socket
\* path, so the listener is created or its creation fails, which ends the
\* test (t.Fatalf) before any cleanup is registered.
TestStart(t) ==
    /\ test[t].pc = "start"
    /\ \E listenOK \in BOOLEAN :
         TestStep(t, IF listenOK
                     THEN [test[t] EXCEPT !.pc = "goServe", !.listener = "open"]
                     ELSE [test[t] EXCEPT !.pc = "ended", !.failed = TRUE])

\* go func() { ... Serve(lis) ... }(): the goroutine is started.
TestGoServe(t) ==
    /\ test[t].pc = "goServe"
    /\ TestStep(t, [test[t] EXCEPT !.pc = "Connect", !.serve = "spawned"])

\* grpc.NewClient dials nothing; conn.Connect() asks the channel to leave
\* Idle and returns.
TestConnect(t) ==
    /\ test[t].pc = "Connect"
    /\ TestStep(t, [test[t] EXCEPT !.pc = "wait", !.client = "exiting"])

\* The channel leaves Idle and dials the socket path.
ClientConnecting(t) ==
    /\ test[t].client = "exiting"
    /\ TestStep(t, [test[t] EXCEPT !.client = "connecting"])

\* The wait of the test is over with success: EndToEnd waits until the state
\* is no longer Idle, UnixSocket until it is Idle.
WaitDone(t, client) == IF t = "EndToEnd" THEN ~ClientIdle(client) ELSE ClientIdle(client)

\* The wait returns with success and the test function returns: the cleanups
\* run, last registered first.
TestWait(t) ==
    /\ test[t].pc = "wait"
    /\ WaitDone(t, test[t].client)
    /\ TestStep(t, [test[t] EXCEPT !.pc = "connClose"])

\* The wait's deadline passes first: t.Fatalf, and the cleanups run.
TestWaitTimeout(t) ==
    /\ test[t].pc = "wait"
    /\ ~WaitDone(t, test[t].client)
    /\ TestStep(t, [test[t] EXCEPT !.pc = "connClose", !.failed = TRUE])

\* Cleanup: conn.Close().
TestConnClose(t) ==
    /\ test[t].pc = "connClose"
    /\ TestStep(t, [test[t] EXCEPT !.pc = "Stop", !.client = "closed", !.conns = 0])

\* Cleanup: Stop() on the server.  The listener and the connections are
\* closed at once and Stop does not wait for Serve.
TestStop(t) ==
    /\ test[t].pc = "Stop"
    /\ TestStep(t, [test[t] EXCEPT !.pc = "lisClose", !.stopped = TRUE,
                                   !.listener = "closed", !.conns = 0])

\* Cleanup: the listener's Close(), its error dropped.  EndToEnd then waits
\* for the Serve goroutine, UnixSocket removes the socket file and is over.
TestLisClose(t) ==
    /\ test[t].pc = "lisClose"
    /\ TestStep(t, [test[t] EXCEPT !.pc = IF t = "EndToEnd" THEN "serveDone" ELSE "ended",
                                   !.listener = "closed"])

\* The error EndToEnd's cleanup accepts from Serve.
ServeErrExpected(serveErr) == serveErr \in {"nil", "ErrServerStopped"}

\* Cleanup of EndToEnd: the error of Serve is received from serveDone; any
\* error but ErrServerStopped is a test failure.
TestServeDone(t) ==
    /\ test[t].pc = "serveDone"
    /\ test[t].serve = "returned"
    /\ TestStep(t, [test[t] EXCEPT !.pc = "ended",
                                   !.failed = @ \/ ~ServeErrExpected(test[t].serveErr)])

\* Cleanup of EndToEnd: the second passes before Serve has returned.
TestServeDoneTimeout(t) ==
    /\ test[t].pc = "serveDone"
    /\ test[t].serve # "returned"
    /\ TestStep(t, [test[t] EXCEPT !.pc = "ended", !.failed = TRUE])

\* Serve returns serveErr to the goroutine of test t: EndToEnd sends it on
\* serveDone, UnixSocket fails the test on any error.
ServeReturned(t, serveErr) ==
    TestStep(t, [test[t] EXCEPT !.serve = "returned", !.serveErr = serveErr,
                                !.failed = @ \/ (t = "UnixSocket" /\ serveErr # "nil")])

\* The goroutine calls Serve: on a server already stopped it returns
\* ErrServerStopped, otherwise it accepts on the listener.
ServeEnters(t) ==
    /\ test[t].serve = "spawned"
    /\ IF test[t].stopped
       THEN ServeReturned(t, "ErrServerStopped")
       ELSE TestStep(t, [test[t] EXCEPT !.serve = "serving"])

\* Serve accepts the client's connection: the channel is Ready.
ServeAccepts(t) ==
    /\ test[t].serve = "serving"
    /\ ~test[t].stopped
    /\ test[t].listener = "open"
    /\ test[t].client = "connecting"
    /\ TestStep(t, [test[t] EXCEPT !.client = "ready", !.connected = TRUE, !.conns = 1])

\* A Serve that returns the accept error of the closed listener when the
\* server is stopped. C31 tells it from the code.
ServeStopsWithAcceptError(t) ==
    /\ test[t].serve = "serving"
    /\ test[t].stopped
    /\ ServeReturned(t, "other")

\* Serve finds the server stopped: it returns nil.
ServeStops(t) ==
    /\ test[t].serve = "serving"
    /\ test[t].stopped
    /\ ServeReturned(t, "nil")

\* Accept fails on a server that was not stopped: Serve returns the error.
ServeAcceptFails(t) ==
    /\ test[t].serve = "serving"
    /\ ~test[t].stopped
    /\ ServeReturned(t, "other")

\* The goroutine of test t that calls Serve.
ServeGoroutine(t) == ServeEnters(t) \/ ServeStops(t)

\* The process as started: main() is about to parse its arguments.
Init ==
    /\ mainPc = "parseArgs"
    /\ exitCode = -1
    /\ socket \in {"absent", "stale", "nodir"}
    /\ listener = "none"
    /\ notify = FALSE
    /\ sigCh = 0
    /\ sigPc = "none"
    /\ quit = FALSE
    /\ conns = 0
    /\ call = [c \in CallIds |-> IdleCall]
    /\ draining = {}
    /\ startup = NotStarted
    /\ unit = NoUnit
    /\ test = NoTests

Next ==
    \/ parseArgs
    \/ startServer
    \/ verifySocket
    \/ setupSignalHandling
    \/ Serve
    \/ ServeFails
    \/ ServeReturns
    \/ Sigterm
    \/ GracefulStop
    \/ GracefulStopReturns
    \/ AcceptConn
    \/ \E c \in CallIds : CallStep(c, ServerScope)

\* The whole server: startup, concurrent calls, shutdown.
Spec == Init /\ [][Next]_vars

\* The server as it serves one connection, before any signal.
InitCall ==
    /\ mainPc = "serving"
    /\ exitCode = -1
    /\ socket = "fresh"
    /\ listener = "open"
    /\ notify = TRUE
    /\ sigCh = 0
    /\ sigPc = "waiting"
    /\ quit = FALSE
    /\ conns = 1
    /\ call = [c \in CallIds |-> IdleCall]
    /\ draining = {}
    /\ startup = NotStarted
    /\ unit = NoUnit
    /\ test = NoTests

NextCall == CallStep(1, CallScope)

\* One call at a time, over every request, environment and source.
SpecCall == InitCall /\ [][NextCall]_vars

\* The functions of pkg/s3 on their own, over every blob.
InitUnit == InitCall

NextUnit ==
    \/ ParseUnit
    \/ MarshalUnit
    \/ ResolveUnit

SpecUnit == InitUnit /\ [][NextUnit]_vars

InitCreate == InitCall

NextCreate ==
    \/ ParseUnit
    \/ ResolveUnit
    \/ CreateUnit

\* The two ways to a driver on their own: CreateArtifactDriver over every
\* resolved configuration, getArtifactDriver over every parsed blob.
SpecCreate == InitCreate /\ [][NextCreate]_vars

InitPair == InitCall

NextPair == \E c \in CallIds : CallStep(c, PairScope)

\* Calls side by side on a serving server, in every interleaving.
SpecPair == InitPair /\ [][NextPair]_vars

\* The tests as they start, main not run.
InitTest ==
    /\ mainPc = "parseArgs"
    /\ exitCode = -1
    /\ socket = "absent"
    /\ listener = "none"
    /\ notify = FALSE
    /\ sigCh = 0
    /\ sigPc = "none"
    /\ quit = FALSE
    /\ conns = 0
    /\ call = [c \in CallIds |-> IdleCall]
    /\ draining = {}
    /\ startup = NotStarted
    /\ unit = NoUnit
    /\ test = [t \in TestNames |-> NewTest]

NextTest ==
    \E t \in TestNames :
      \/ TestStart(t)
      \/ TestGoServe(t)
      \/ TestConnect(t)
      \/ ClientConnecting(t)
      \/ TestWait(t)
      \/ TestWaitTimeout(t)
      \/ TestConnClose(t)
      \/ TestStop(t)
      \/ TestLisClose(t)
      \/ TestServeDone(t)
      \/ TestServeDoneTimeout(t)
      \/ ServeEnters(t)
      \/ ServeAccepts(t)
      \/ ServeStops(t)
      \/ ServeAcceptFails(t)

\* The two tests side by side.  The goroutines are scheduled: one that is
\* about to call Serve or whose Serve may return does so, a channel that was
\* asked to connect dials, and a connection waiting at a serving listener is
\* accepted.
SpecTest ==
    /\ InitTest
    /\ [][NextTest]_vars
    /\ \A t \in TestNames :
         /\ WF_vars(ServeGoroutine(t))
         /\ WF_vars(ClientConnecting(t))
         /\ WF_vars(ServeAccepts(t))

InitStream == InitCall

NextStream ==
    \/ CallStep(1, StreamScope)
    \/ Cancel(1)

\* A call that may be cancelled at any point.  The handler's goroutine is
\* scheduled and Read and Send return, so a handler in its loop takes its
\* next step.
SpecStream ==
    /\ InitStream
    /\ [][NextStream]_vars
    /\ WF_vars(StreamRead(1, StreamScope))
    /\ WF_vars(StreamEnd(1))

\* ------------------------------------------------------------------ claims

\* What the request and the environment of a call say, read off the call's
\* inputs rather than off what its handler did.

\* The artifact lacks what the validator requires.
Malformed(a) ==
    \/ IsNil(a)
    \/ IsNil(Deref(a).Plugin)
    \/ Deref(Deref(a).Plugin).Configuration.empty

BlobOf(cl) == Deref(Deref(cl.artifact).Plugin).Configuration

\* The blob does not decode.
ParseFails(cl) == ~UnmarshalStrictOK(BlobOf(cl))

ConfigOf(cl) == Unmarshalled(BlobOf(cl))

\* The blob decodes and no driver can be resolved from it in the call's
\* environment.
ResolveFails(cl) ==
    /\ ~ParseFails(cl)
    /\ IsError(getArtifactDriver(ConfigOf(cl), Deref(cl.env)).err)

\* The driver is built and its method answers with an error.
DriverFails(cl) ==
    /\ ~ParseFails(cl)
    /\ ~ResolveFails(cl)
    /\ IsError(Deref(cl.res).err)

\* A unary call whose handler has returned.
UnaryDone(cl) == cl.pc = "done" /\ cl.op \in UnaryOps

\* The response says the operation failed: success=false, or no result.
FailureShaped(cl) ==
    /\ ~IsNil(cl.resp)
    /\ CASE cl.op \in {"Load", "Save", "Delete"} -> Deref(cl.resp).Success = FALSE
         [] cl.op = "ListObjects" -> Deref(cl.resp).Objects = <<>>
         [] cl.op = "IsDirectory" -> Deref(cl.resp).IsDirectory = FALSE
    /\ Deref(cl.resp).Error # <<>>

\* C1: a unary call in which parsing, resolution or the Driver call fails
\* returns a failure response with a non-empty error string and no transport
\* error.
C1_StructuredFailure ==
    \A c \in CallIds :
        LET cl == call[c]
        IN  (/\ UnaryDone(cl)
             /\ ~Malformed(cl.artifact)
             /\ (ParseFails(cl) \/ ResolveFails(cl) \/ DriverFails(cl)))
            => (FailureShaped(cl) /\ cl.err = NoError)

\* C1 witness: each kind of failure has been answered by some handler.
C1_Witness ==
    \E c \in CallIds :
        /\ UnaryDone(call[c])
        /\ call[c].op = "IsDirectory"
        /\ ~Malformed(call[c].artifact)
        /\ DriverFails(call[c])
        /\ FailureShaped(call[c])

\* The payloads of the data messages (end=false), joined in send order.
RECURSIVE DataOf(_)
DataOf(sent) ==
    IF sent = <<>> THEN <<>>
    ELSE IF Head(sent).IsEnd THEN DataOf(Tail(sent))
    ELSE Head(sent).Data \o DataOf(Tail(sent))

EndMarkers(sent) == {i \in 1..Len(sent) : sent[i].IsEnd}

\* The data messages carry exactly the source and one empty end marker
\* closes the stream.
CompleteStream(cl) ==
    /\ DataOf(cl.sent) = cl.src
    /\ EndMarkers(cl.sent) = {Len(cl.sent)}
    /\ cl.sent[Len(cl.sent)].Data = <<>>

\* An OpenStream call that opened its source and returned, the source never
\* having failed: it yields its bytes and then end-of-data.
StreamOverGoodSource(cl) ==
    cl.pc = "done" /\ cl.op = "OpenStream" /\ cl.reader # "none" /\ cl.readErr # "fail"

\* C2 as stated: over a source of N bytes that ends with end-of-data, the
\* data messages carry the N bytes and exactly one empty end marker is sent,
\* last.
C2_AsStated ==
    \A c \in CallIds : StreamOverGoodSource(call[c]) => CompleteStream(call[c])

\* C2 amended: the same, for the streams on which every send succeeded.
C2_CompleteWhenSendsSucceed ==
    \A c \in CallIds :
        (StreamOverGoodSource(call[c]) /\ ~call[c].sendFailed) => CompleteStream(call[c])

\* C2 witness: a source of several bytes went out in more than one chunk.
C2_Witness ==
    \E c \in CallIds :
        /\ StreamOverGoodSource(call[c])
        /\ ~call[c].sendFailed
        /\ Len(call[c].src) >= 2
        /\ Len(call[c].sent) >= 3

\* C3: after a read failure that is not end-of-data no end marker is sent
\* and the call returns a transport error.
C3_ReadFailureAborts ==
    \A c \in CallIds :
        (call[c].op = "OpenStream" /\ call[c].readErr = "fail")
        => /\ EndMarkers(call[c].sent) = {}
           /\ call[c].pc = "done" => IsError(call[c].err)

\* C4: once GracefulStop has begun no call is cut off, and when the process
\* has exited every call that was in flight at that moment has returned.
C4_InFlightCallsComplete ==
    quit => /\ \A c \in CallIds : call[c].pc # "aborted"
            /\ mainPc = "exited" => \A c \in draining : call[c].pc = "done"

\* C4 witness: the process exited cleanly after waiting for a stream.
C4_Witness ==
    /\ mainPc = "exited"
    /\ exitCode = 0
    /\ \E c \in draining : call[c].op = "OpenStream" /\ call[c].sent # <<>>

\* C5: once GracefulStop has begun, no step accepts a connection or starts
\* a call.
C5_NoNewWorkWhileDraining ==
    [][quit => /\ conns' <= conns
               /\ \A c \in CallIds : call[c].pc = "idle" => call'[c].pc = "idle"]_vars

\* C5 witness: the server drains a call while a connection is open and a
\* slot is free.
C5_Witness ==
    /\ quit
    /\ mainPc = "serving"
    /\ conns > 0
    /\ \E c \in CallIds : call[c].pc = "idle"
    /\ \E c \in CallIds : InFlight(c)

\* C6: the validator fails, with InvalidArgument, exactly for a missing
\* artifact, a missing plugin envelope or an empty configuration; and a call
\* it fails takes no step of parsing, of secret lookup or of the Driver.
C6_ValidatorExact ==
    \A c \in CallIds :
        LET cl == call[c]
            v == validatePluginArtifact(cl.artifact)
        IN  cl.pc # "idle" =>
              /\ IsError(v) <=> Malformed(cl.artifact)
              /\ IsError(v) => v.code = "InvalidArgument"
              /\ (cl.pc = "done" /\ Malformed(cl.artifact))
                 => (cl.log = <<>> /\ IsNil(cl.driver) /\ cl.reader = "none")

\* C6 witness: a call with an empty configuration has returned.
C6_Witness ==
    \E c \in CallIds :
        /\ call[c].pc = "done"
        /\ ~IsNil(call[c].artifact)
        /\ ~IsNil(Deref(call[c].artifact).Plugin)
        /\ BlobOf(call[c]).empty
        /\ call[c].log = <<>>

SaysArtifactRequired(msg) ==
    \/ Contains(msg, "artifact is required")
    \/ Contains(msg, "input artifact is required")
    \/ Contains(msg, "output artifact is required")

ListWithoutEnvelope(cl) ==
    /\ cl.pc = "done"
    /\ cl.op = "ListObjects"
    /\ ~IsNil(cl.artifact)
    /\ IsNil(Deref(cl.artifact).Plugin)

StreamDone(cl) == cl.pc = "done" /\ cl.op = "OpenStream"

\* Validation, resolution or driver construction failed for the call.
SetupFails(cl) ==
    Malformed(cl.artifact) \/ ParseFails(cl) \/ ResolveFails(cl)

\* C9 as stated: an OpenStream call whose validation, resolution or driver
\* construction fails ends with an Internal status and sends nothing.
C9_AsStated ==
    \A c \in CallIds :
        (StreamDone(call[c]) /\ SetupFails(call[c]))
        => (call[c].err.code = "Internal" /\ call[c].sent = <<>>)

\* C9 amended: it sends nothing and ends with InvalidArgument when the
\* validation fails, with Internal when resolution or construction fails.
C9_SetupFailureCodes ==
    \A c \in CallIds :
        (StreamDone(call[c]) /\ SetupFails(call[c]))
        => /\ call[c].sent = <<>>
           /\ call[c].err.code =
                IF Malformed(call[c].artifact) THEN "InvalidArgument" ELSE "Internal"

\* C9 witness: a stream whose secrets could not be resolved has ended.
C9_Witness ==
    \E c \in CallIds :
        /\ StreamDone(call[c])
        /\ ~Malformed(call[c].artifact)
        /\ ResolveFails(call[c])
        /\ call[c].err.code = "Internal"

\* The call's configuration decodes and asks for the SDK's credentials.
UsesSDKCreds(cl) ==
    /\ cl.pc \in {"reading", "endMarker", "done"}
    /\ ~Malformed(cl.artifact)
    /\ ~ParseFails(cl)
    /\ ConfigOf(cl).UseSDKCreds

\* C10: with useSDKCreds true the resolution reads no namespace and fetches
\* no secret, and the driver's three credentials are empty, whatever secret
\* references the configuration holds.
C10_SDKCredsSkipSecrets ==
    \A c \in CallIds :
        UsesSDKCreds(call[c]) =>
          /\ CountEvents(call[c].log, "ReadNamespace") = 0
          /\ CountEvents(call[c].log, "GetSecret") = 0
          /\ ~IsNil(call[c].driver)
          /\ Deref(call[c].driver).AccessKey = ""
          /\ Deref(call[c].driver).SecretKey = ""
          /\ Deref(call[c].driver).SessionToken = ""

\* C10 witness: a configuration with useSDKCreds and secret references was
\* resolved where the secrets could have been fetched.
C10_Witness ==
    \E c \in CallIds :
        /\ UsesSDKCreds(call[c])
        /\ ~IsNil(ConfigOf(call[c]).AccessKeySecret)
        /\ ~IsNil(ConfigOf(call[c]).SecretKeySecret)
        /\ Deref(call[c].env) = GoodEnv
        /\ ~IsNil(call[c].driver)

\* C20: startServer clears the listening path before it listens.  With
\* nothing there, or with a stale file removed, it goes on to net.Listen and
\* a listener that was created sits on a fresh socket, never on the old
\* file; a removal error other than absence ends the process with status 1
\* and net.Listen is never called.
C20_PathClearedBeforeListen ==
    /\ startup.removeErr = "other"
       => /\ mainPc = "exited"
          /\ exitCode = 1
          /\ startup.listenErr = "none"
          /\ listener = "none"
          /\ socket # "fresh"
    /\ startup.removeErr \in {"nil", "notExist"}
       => /\ startup.listenErr # "none"
          /\ socket # "stale"
          /\ startup.listenErr = "nil"
             => (socket = "fresh" /\ listener = "open" /\ exitCode # 1)
    /\ listener # "none" => socket # "stale"

\* C20 witness: a stale file was removed and the listener created anew.
C20_Witness ==
    /\ startup.removeErr = "nil"
    /\ startup.listenErr = "nil"
    /\ mainPc = "verifySocket"
    /\ socket = "fresh"
    /\ listener = "open"

\* What the secret store of an environment holds for a reference: the value,
\* or nothing when the secret or the key is missing or the store fails.
StoreValue(env, selector) ==
    IF selector.Name \notin DOMAIN env.secrets THEN <<>>
    ELSE IF env.secrets[selector.Name].status # "ok" THEN <<>>
    ELSE IF selector.Key \notin DOMAIN env.secrets[selector.Name].data THEN <<>>
    ELSE env.secrets[selector.Name].data[selector.Key]

\* The reference is present and its lookup cannot give a value.
LookupFails(env, p) ==
    ~IsNil(p) /\ (IsNil(env.namespace) \/ StoreValue(env, Deref(p)) = <<>>)

\* The call's handler is past the resolution of a well-formed request whose
\* configuration asks for secrets, in a cluster whose client is built.
ResolvesSecrets(cl) ==
    /\ cl.pc \in {"reading", "endMarker", "done"}
    /\ ~Malformed(cl.artifact)
    /\ ~ParseFails(cl)
    /\ ~ConfigOf(cl).UseSDKCreds
    /\ Deref(cl.env).inCluster
    /\ Deref(cl.env).client

\* C11: with useSDKCreds false, both key references present and a value in
\* the store for each, the driver's access key is the value of the access-key
\* reference and its secret key the value of the secret-key reference; and
\* the driver is resolved when the session token, if asked for, is there too.
C11_KeysFromTheirReferences ==
    \A c \in CallIds :
        LET cl == call[c]
        IN  (/\ ResolvesSecrets(cl)
             /\ ~IsNil(ConfigOf(cl).AccessKeySecret)
             /\ ~IsNil(ConfigOf(cl).SecretKeySecret)
             /\ ~LookupFails(Deref(cl.env), ConfigOf(cl).AccessKeySecret)
             /\ ~LookupFails(Deref(cl.env), ConfigOf(cl).SecretKeySecret))
            => /\ ~LookupFails(Deref(cl.env), ConfigOf(cl).SessionTokenSecret)
                  => ~IsNil(cl.driver)
               /\ ~IsNil(cl.driver)
                  => /\ <<Deref(cl.driver).AccessKey>> =
                          StoreValue(Deref(cl.env), Deref(ConfigOf(cl).AccessKeySecret))
                     /\ <<Deref(cl.driver).SecretKey>> =
                          StoreValue(Deref(cl.env), Deref(ConfigOf(cl).SecretKeySecret))

\* C11 witness: a driver holds two different values, each from its own key.
C11_Witness ==
    \E c \in CallIds :
        /\ ResolvesSecrets(call[c])
        /\ ~IsNil(call[c].driver)
        /\ Deref(call[c].driver).AccessKey = "AKIA"
        /\ Deref(call[c].driver).SecretKey = "wJal"

\* C12: a Load whose configuration has useSDKCreds false and neither key
\* reference answers success=false with an error that mentions the access
\* key resolution, and does not call the Driver.
C12_NoReferencesFail ==
    \A c \in CallIds :
        LET cl == call[c]
        IN  (/\ cl.pc = "done"
             /\ cl.op = "Load"
             /\ ~Malformed(cl.artifact)
             /\ ~ParseFails(cl)
             /\ ~ConfigOf(cl).UseSDKCreds
             /\ IsNil(ConfigOf(cl).AccessKeySecret)
             /\ IsNil(ConfigOf(cl).SecretKeySecret))
            => /\ Deref(cl.resp).Success = FALSE
               /\ Contains(Deref(cl.resp).Error, "failed to resolve access key")
               /\ CountEvents(cl.log, "Driver") = 0

\* The credential is a non-empty value when its reference is present and
\* absent when it is not.
NonEmptyOrAbsent(credential, p) ==
    IF IsNil(p) THEN credential = "" ELSE credential # ""

\* C13: in a driver resolved with useSDKCreds false no credential whose
\* reference is present is the empty string.
C13_NoEmptyCredential ==
    \A c \in CallIds :
        LET cl == call[c]
        IN  (ResolvesSecrets(cl) /\ ~IsNil(cl.driver))
            => /\ NonEmptyOrAbsent(Deref(cl.driver).AccessKey, ConfigOf(cl).AccessKeySecret)
               /\ NonEmptyOrAbsent(Deref(cl.driver).SecretKey, ConfigOf(cl).SecretKeySecret)
               /\ NonEmptyOrAbsent(Deref(cl.driver).SessionToken,
                                   ConfigOf(cl).SessionTokenSecret)

\* The error text of a returned call: the status of OpenStream, the error
\* string of a unary response.
ErrorText(cl) ==
    IF cl.op = "OpenStream" THEN ErrorString(cl.err) ELSE Deref(cl.resp).Error

Credentials == {"access key", "secret key", "session token"}

ResolveError ==
    [w \in Credentials |->
       CASE w = "access key" -> "failed to resolve access key"
         [] w = "secret key" -> "failed to resolve secret key"
         [] w = "session token" -> "failed to resolve session token"]

\* The call failed without a driver and its error names this credential
\* and no other.
FailsNaming(cl, which) ==
    /\ IsNil(cl.driver)
    /\ \A w \in Credentials : Contains(ErrorText(cl), ResolveError[w]) <=> w = which

\* The fetch is the one of this reference.
FetchOf(e, p) == ~IsNil(p) /\ e.name = Deref(p).Name /\ e.key = Deref(p).Key

\* C14: when the namespace is unreadable or the store has no value for a
\* present access-key or secret-key reference, the resolution fails without
\* a driver; the error names the credential whose lookup failed, the session
\* token included; and no fetch is made for a session token without
\* reference.
C14_LookupFailureNamed ==
    \A c \in CallIds :
        LET cl == call[c]
        IN  (ResolvesSecrets(cl) /\ cl.pc = "done")
            => /\ LookupFails(Deref(cl.env), ConfigOf(cl).AccessKeySecret)
                  => FailsNaming(cl, "access key")
               /\ (/\ ~LookupFails(Deref(cl.env), ConfigOf(cl).AccessKeySecret)
                   /\ LookupFails(Deref(cl.env), ConfigOf(cl).SecretKeySecret))
                  => FailsNaming(cl, "secret key")
               /\ (/\ ~LookupFails(Deref(cl.env), ConfigOf(cl).AccessKeySecret)
                   /\ ~LookupFails(Deref(cl.env), ConfigOf(cl).SecretKeySecret)
                   /\ LookupFails(Deref(cl.env), ConfigOf(cl).SessionTokenSecret))
                  => FailsNaming(cl, "session token")
               /\ IsNil(ConfigOf(cl).SessionTokenSecret)
                  => \A i \in 1..Len(cl.log) :
                       cl.log[i].ev = "GetSecret"
                       => \/ FetchOf(cl.log[i], ConfigOf(cl).AccessKeySecret)
                          \/ FetchOf(cl.log[i], ConfigOf(cl).SecretKeySecret)

\* C14 witness: both keys were fetched and the session token was not there.
C14_Witness ==
    \E c \in CallIds :
        /\ ResolvesSecrets(call[c])
        /\ call[c].pc = "done"
        /\ CountEvents(call[c].log, "GetSecret") = 3
        /\ FailsNaming(call[c], "session token")

\* C15 as stated: one call's resolution reads the namespace at most once.
C15_AsStated ==
    \A c \in CallIds : CountEvents(call[c].log, "ReadNamespace") <= 1

Count(b) == IF b THEN 1 ELSE 0

\* The lookups a resolution makes: one for each present reference, in the
\* order access key, secret key, session token, up to the first that fails.
Lookups(env, config) ==
    Count(~IsNil(config.AccessKeySecret))
    + Count(/\ ~LookupFails(env, config.AccessKeySecret)
            /\ ~IsNil(config.SecretKeySecret))
    + Count(/\ ~LookupFails(env, config.AccessKeySecret)
            /\ ~LookupFails(env, config.SecretKeySecret)
            /\ ~IsNil(config.SessionTokenSecret))

\* C15 amended: the namespace is read once for every lookup made, so up to
\* three times in one call, and never without a lookup; a call has nothing
\* but its own reads to go by.
C15_NamespaceReadPerLookup ==
    \A c \in CallIds :
        LET cl == call[c]
        IN  /\ ResolvesSecrets(cl)
               => CountEvents(cl.log, "ReadNamespace")
                    = Lookups(Deref(cl.env), ConfigOf(cl))
            /\ (cl.pc = "done" /\ ~ResolvesSecrets(cl))
               => CountEvents(cl.log, "ReadNamespace") = 0

\* C15 witness: a call with three references read the namespace three times.
C15_Witness ==
    \E c \in CallIds :
        /\ ResolvesSecrets(call[c])
        /\ CountEvents(call[c].log, "ReadNamespace") = 3
        /\ ~IsNil(call[c].driver)

\* What a blob says, read off the blob itself.

\* The value a blob gives a secret reference cannot be decoded: it is no
\* mapping, or it has a key outside the schema.
RefBad(v) == ~IsNil(v) /\ (Deref(v).shape # "object" \/ Deref(v).extra)

\* A document that strict decoding must refuse.
BadBlob(b) ==
    /\ ~b.empty
    /\ \/ ~b.wellFormed
       \/ b.unknown
       \/ RefBad(b.accessKeySecret)
       \/ RefBad(b.secretKeySecret)
       \/ RefBad(b.sessionTokenSecret)

\* A document made of known fields only.
KnownOnly(b) ==
    /\ ~b.empty
    /\ b.wellFormed
    /\ ~b.unknown
    /\ ~RefBad(b.accessKeySecret)
    /\ ~RefBad(b.secretKeySecret)
    /\ ~RefBad(b.sessionTokenSecret)

\* The value written for an optional field, or the default.
Written(v, default) == IF v = <<>> THEN default ELSE v[1]

\* The parsed selector holds what the blob wrote for the reference.
SelectorAsWritten(p, v) ==
    IF v = <<>> THEN p = <<>>
    ELSE /\ p # <<>>
         /\ p[1].Name = Written(v[1].name, "")
         /\ p[1].Key = Written(v[1].key, "")
         /\ p[1].Optional = v[1].optional

\* C16: parsePluginConfiguration fails on every document with a key outside
\* the schema (top level or inside a secret reference), with invalid syntax,
\* or with a secret reference that is no mapping; it then returns no
\* configuration and an error saying "failed to parse plugin configuration".
C16_StrictParseFails ==
    (unit.pc # "idle" /\ BadBlob(unit.blob))
    => /\ IsError(unit.parsed.err)
       /\ unit.parsed.config = <<>>
       /\ Contains(ErrorString(unit.parsed.err), "failed to parse plugin configuration")

\* C16 witness: a well-formed document whose only fault is a key outside the
\* schema inside a secret reference has been refused.
C16_Witness ==
    /\ unit.pc = "parsed"
    /\ unit.blob.wellFormed
    /\ ~unit.blob.unknown
    /\ ~IsNil(unit.blob.accessKeySecret)
    /\ Deref(unit.blob.accessKeySecret).shape = "object"
    /\ Deref(unit.blob.accessKeySecret).extra
    /\ ~RefBad(unit.blob.secretKeySecret)
    /\ IsError(unit.parsed.err)

\* C17: parsePluginConfiguration on the empty string succeeds with a
\* configuration in which every field has its default.
C17_EmptyBlobDefaults ==
    (unit.pc # "idle" /\ unit.blob.empty)
    => /\ unit.parsed.err = NoError
       /\ Len(unit.parsed.config) = 1
       /\ LET config == unit.parsed.config[1]
          IN  /\ config.Bucket = "" /\ config.Endpoint = ""
              /\ config.Region = "" /\ config.RoleARN = ""
              /\ config.UseSDKCreds = FALSE
              /\ config.Insecure = <<>>
              /\ config.AccessKeySecret = <<>>
              /\ config.SecretKeySecret = <<>>
              /\ config.SessionTokenSecret = <<>>

\* C17 witness: the empty string has been parsed.
C17_Witness ==
    /\ unit.pc = "parsed"
    /\ unit.blob.empty
    /\ unit.parsed.config # <<>>

\* C18: a document of known fields parses, every field of the configuration
\* holds what the document wrote and the fields left out are unset; and the
\* serialized configuration parses to the same configuration.
C18_KnownFieldsRoundTrip ==
    /\ (unit.pc # "idle" /\ KnownOnly(unit.blob))
       => /\ unit.parsed.err = NoError
          /\ Len(unit.parsed.config) = 1
          /\ LET config == unit.parsed.config[1]
                 b == unit.blob
             IN  /\ config.Bucket = Written(b.bucket, "")
                 /\ config.Endpoint = Written(b.endpoint, "")
                 /\ config.Region = Written(b.region, "")
                 /\ config.RoleARN = Written(b.roleARN, "")
                 /\ config.UseSDKCreds = Written(b.useSDKCreds, FALSE)
                 /\ config.Insecure = b.insecure
                 /\ SelectorAsWritten(config.AccessKeySecret, b.accessKeySecret)
                 /\ SelectorAsWritten(config.SecretKeySecret, b.secretKeySecret)
                 /\ SelectorAsWritten(config.SessionTokenSecret, b.sessionTokenSecret)
    /\ unit.pc = "marshalled"
       => /\ unit.again[1].err = NoError
          /\ unit.again[1].config = unit.parsed.config

\* C18 witness: a document that sets every kind of field was serialized to
\* a different text and parsed again.
C18_Witness ==
    /\ unit.pc = "marshalled"
    /\ KnownOnly(unit.blob)
    /\ unit.blob.useSDKCreds = <<FALSE>>
    /\ unit.blob.insecure = <<FALSE>>
    /\ ~IsNil(unit.blob.accessKeySecret)
    /\ Deref(unit.blob.accessKeySecret).optional = <<TRUE>>
    /\ IsNil(Deref(unit.blob.accessKeySecret).key)
    /\ ~IsNil(unit.blob.roleARN)
    /\ unit.text[1] # unit.blob

\* C19: the driver is secure unless the configuration says "insecure: true".
C19_SecureIsNotInsecure ==
    (unit.pc = "resolved" /\ unit.out[1].driver # <<>>)
    => unit.out[1].driver[1].Secure =
         (IF unit.blob.empty \/ unit.blob.insecure = <<>> THEN TRUE
          ELSE ~unit.blob.insecure[1])

\* C19 witness: a driver was built from "insecure: true".
C19_Witness ==
    /\ unit.pc = "resolved"
    /\ unit.blob.insecure = <<TRUE>>
    /\ unit.out[1].driver # <<>>
    /\ ~unit.out[1].driver[1].Secure

\* --------------------------------------------------- the order of startup

\* Where the server is on Starting (1), Listening (2), Serving (3),
\* Draining (4), Stopped (5).
LifecycleStage ==
    IF mainPc = "exited" THEN 5
    ELSE IF quit THEN 4
    ELSE IF mainPc = "serving" THEN 3
    ELSE IF listener = "open" THEN 2
    ELSE 1

\* main moves to position pc in this step.
Enters(pc) == mainPc' = pc /\ mainPc # pc

\* C21: the lifecycle only moves forward through Starting, Listening,
\* Serving, Draining, Stopped.  main reaches Serve only through startServer
\* (removal without error, then a listener on a fresh socket), verifySocket
\* (os.Stat without error) and setupSignalHandling, in that order, and a
\* failure of removal, of net.Listen or of os.Stat ends the process with
\* status 1 without the server ever serving.
C21_ForwardOnly ==
    /\ [](/\ mainPc \in {"setupSignalHandling", "Serve", "serving"}
             => (startup.statErr = "nil" /\ startup.lenArgs = 2)
          /\ (\/ startup.removeErr = "other"
              \/ startup.listenErr = "fail"
              \/ startup.statErr = "fail")
             => (mainPc = "exited" /\ exitCode = 1)
          /\ mainPc = "serving" => (socket = "fresh" /\ listener # "none"))
    /\ [][/\ LifecycleStage' >= LifecycleStage
          /\ Enters("verifySocket")
             => /\ mainPc = "startServer"
                /\ startup'.removeErr \in {"nil", "notExist"}
                /\ startup'.listenErr = "nil"
                /\ socket' = "fresh"
                /\ listener' = "open"
          /\ Enters("setupSignalHandling")
             => (mainPc = "verifySocket" /\ startup'.statErr = "nil")
          /\ Enters("Serve") => mainPc = "setupSignalHandling"
          /\ Enters("serving") => (mainPc = "Serve" /\ ~quit)
          /\ Enters("exited") /\ mainPc \in {"startServer", "verifySocket"}
             => exitCode' \in {1, 143}]_vars

\* C21 witness: the server serves, after a stale file was cleared, the
\* listener created and the socket checked.
C21_Witness ==
    /\ mainPc = "serving"
    /\ ~quit
    /\ startup.statErr = "nil"
    /\ socket = "fresh"
    /\ listener = "open"
    /\ conns > 0

\* C22 as stated: a process that was shut down by a termination signal
\* handled after signal.Notify exits with status 0.  It fails: a SIGTERM
\* handled between setupSignalHandling and server.Serve stops the server
\* first, Serve returns ErrServerStopped and main exits with status 1.
C22_AsStated == (mainPc = "exited" /\ quit) => exitCode = 0

\* C23: with any argument count but one (len(os.Args) # 2) the process ends
\* with status 1 before os.Remove, net.Listen or os.Stat is called: the
\* socket path and the listener are as they were; and main goes past
\* parseArgs only with exactly one argument.
C23_OneArgument ==
    /\ [](/\ startup.lenArgs \notin {0, 2}
             => /\ mainPc = "exited"
                /\ exitCode = 1
                /\ startup.removeErr = "none"
                /\ startup.listenErr = "none"
                /\ startup.statErr = "none"
                /\ listener = "none"
                /\ socket # "fresh"
          /\ mainPc \notin {"parseArgs", "exited"} => startup.lenArgs = 2
          /\ startup.removeErr # "none" => startup.lenArgs = 2)
    /\ [][startup'.lenArgs \notin {0, 2}
          => (socket' = socket /\ listener' = listener)]_vars

\* C23 witness: the process was started with two arguments over a stale
\* socket file, and ended with the file still there.
C23_Witness ==
    /\ startup.lenArgs = 3
    /\ mainPc = "exited"
    /\ exitCode = 1
    /\ socket = "stale"

\* C30 as stated: startServer succeeds for a socket path whose directory
\* does not exist, and on success leaves a bound listener on a server that
\* serves no connection yet.  It fails: nothing creates the directory, so
\* net.Listen fails and main ends fatally.
C30_AsStated ==
    /\ (socket = "nodir" /\ startup.removeErr = "notExist")
       => (startup.listenErr = "nil" /\ listener = "open")
    /\ startup.listenErr = "nil"
       => (listener = "open" /\ conns = 0 /\ mainPc \in {"verifySocket", "exited"})

\* ------------------------------------------------- the stream's read handle

\* The Driver's OpenStream was called and returned a read handle.
Acquired(cl) ==
    /\ cl.op = "OpenStream"
    /\ cl.pc \in {"reading", "endMarker", "done"}
    /\ CountEvents(cl.log, "Driver") = 1
    /\ ~IsError(Deref(cl.res).err)

\* C27: in OpenStream, a read handle the Driver returned is open and not
\* yet closed while the handler reads and sends, and closed exactly once
\* when the handler has returned, whether it ended on end-of-data, on a read
\* error or on a failed send; a handler that returned without a handle
\* (validation, resolution or the Driver's OpenStream failed) closed nothing.
C27_HandleClosedOnce ==
    \A c \in CallIds :
        LET cl == call[c]
        IN  cl.op = "OpenStream"
            => /\ cl.pc \in {"reading", "endMarker"}
                  => (Acquired(cl) /\ cl.reader = "open" /\ cl.closes = 0)
               /\ (cl.pc = "done" /\ Acquired(cl))
                  => (cl.reader = "closed" /\ cl.closes = 1)
               /\ (cl.pc = "done" /\ ~Acquired(cl))
                  => (cl.reader = "none" /\ cl.closes = 0)

\* C27 witness: a stream that had sent a chunk ended on a failed send with
\* its handle closed.
C27_Witness ==
    \E c \in CallIds :
        /\ call[c].op = "OpenStream"
        /\ call[c].pc = "done"
        /\ call[c].sendFailed
        /\ call[c].sent # <<>>
        /\ call[c].pos < Len(call[c].src)
        /\ call[c].reader = "closed"
        /\ call[c].closes = 1

DriverEvents(log) == {i \in 1..Len(log) : log[i].ev = "Driver"}

\* C29: a unary handler validates, parses the configuration, builds the
\* driver, calls the Driver and maps the outcome, in that order.  A call that
\* fails validation does nothing else; one whose configuration does not
\* parse resolves nothing; the Driver is called at most once, last, with the
\* method of the operation, and exactly when validation, parsing and
\* resolution all succeeded; and every call ends with a response or an
\* error.
C29_PipelineInOrder ==
    \A c \in CallIds :
        LET cl == call[c]
        IN  UnaryDone(cl)
            => /\ Malformed(cl.artifact) => cl.log = <<>>
               /\ ~Malformed(cl.artifact)
                  => /\ cl.log # <<>>
                     /\ cl.log[1].ev = "Unmarshal"
                     /\ CountEvents(cl.log, "Unmarshal") = 1
                     /\ ParseFails(cl) => Len(cl.log) = 1
                     /\ DriverEvents(cl.log) \subseteq {Len(cl.log)}
                     /\ \A i \in DriverEvents(cl.log) : cl.log[i].name = cl.op
                     /\ (DriverEvents(cl.log) # {})
                        <=> (~ParseFails(cl) /\ ~ResolveFails(cl))
                     /\ DriverEvents(cl.log) # {} => ~IsNil(cl.driver)
               /\ (~IsNil(cl.resp) \/ IsError(cl.err))

\* C29 witness: a Save went through every step, two secret lookups
\* included, and ended with the Driver's Save.
C29_Witness ==
    \E c \in CallIds :
        /\ UnaryDone(call[c])
        /\ call[c].op = "Save"
        /\ CountEvents(call[c].log, "GetSecret") = 2
        /\ call[c].log[Len(call[c].log)].ev = "Driver"
        /\ call[c].log[Len(call[c].log)].name = "Save"
        /\ ~IsNil(call[c].resp)
        /\ Deref(call[c].resp).Success

\* ------------------------------------------------------ calls side by side

\* What getDriver gives for the call's own request in the call's own
\* environment.
OwnDriver(cl) == getDriver(cl.artifact, Deref(cl.env))

\* The handler of the call has been through getDriver.
Resolved(cl) == cl.pc \in {"reading", "endMarker", "done"} /\ ~IsNil(cl.env)

\* C24: in every interleaving of concurrent calls, the driver and the
\* artifact a call works with are those that getDriver derives from the
\* call's own request and the secret store, with the call's own lookups,
\* whatever the other calls hold; and a step of one call changes that
\* call's variables only: no other call and nothing of the server.
C24_CallsIsolated ==
    /\ [](\A c \in CallIds :
            Resolved(call[c])
            => IF IsError(OwnDriver(call[c]).err)
               THEN IsNil(call[c].driver) /\ IsNil(call[c].argo)
               ELSE /\ call[c].driver = OwnDriver(call[c]).driver
                    /\ call[c].argo = OwnDriver(call[c]).artifact
                    /\ SubSeq(call[c].log, 1, Len(OwnDriver(call[c]).log))
                         = OwnDriver(call[c]).log)
    /\ [][/\ \A c, d \in CallIds :
               (c # d /\ call'[c] # call[c]) => call'[d] = call[d]
          /\ UNCHANGED lifecycleVars]_vars

\* C24 witness: two calls are past resolution at once, with different
\* requests, and each holds the driver of its own.
C24_Witness ==
    \E c, d \in CallIds :
        /\ c # d
        /\ call[c].pc = "reading"
        /\ call[d].pc = "done"
        /\ call[d].op = "Load"
        /\ call[c].artifact # call[d].artifact
        /\ ~IsNil(call[c].driver)
        /\ ~IsNil(call[d].driver)
        /\ call[c].driver # call[d].driver

\* C25: every call with useSDKCreds false makes its own lookup for each
\* reference of its configuration, and its driver holds what the store
\* answered to those lookups, also when another call has resolved the same
\* references before and the store has changed since.
C25_NoCrossCallCache ==
    \A c \in CallIds :
        LET cl == call[c]
        IN  (Resolved(cl) /\ ResolvesSecrets(cl))
            => /\ CountEvents(cl.log, "GetSecret") = Lookups(Deref(cl.env), ConfigOf(cl))
               /\ CountEvents(cl.log, "ReadNamespace") = Lookups(Deref(cl.env), ConfigOf(cl))
               /\ ~IsNil(cl.driver)
                  => /\ <<Deref(cl.driver).AccessKey>>
                          = StoreValue(Deref(cl.env), Deref(ConfigOf(cl).AccessKeySecret))
                     /\ <<Deref(cl.driver).SecretKey>>
                          = StoreValue(Deref(cl.env), Deref(ConfigOf(cl).SecretKeySecret))

\* C25 witness: a call resolved both references, the store was rotated, and
\* a later call with the same configuration made both lookups again and
\* holds the new values.
C25_Witness ==
    \E c, d \in CallIds :
        /\ c # d
        /\ call[c].pc = "done"
        /\ call[d].pc \in {"reading", "done"}
        /\ call[d].op = "OpenStream"
        /\ call[c].artifact = call[d].artifact
        /\ Deref(call[c].env) = GoodEnv
        /\ Deref(call[d].env) = RotatedEnv
        /\ CountEvents(call[c].log, "GetSecret") = 2
        /\ CountEvents(call[d].log, "GetSecret") = 2
        /\ Deref(call[c].driver).AccessKey = "AKIA"
        /\ Deref(call[d].driver).AccessKey = "AKIB"

\* ------------------------------------------------------------ cancellation

\* C26: the Driver is always invoked with the context of the call, the one
\* that is cancelled when the client cancels or disconnects; and in an
\* OpenStream that was cancelled, a read handle that was acquired is closed
\* once when the handler has returned, none is closed when none was
\* acquired, as without cancellation, and a handle that is open when the
\* call is cancelled does get closed.
C26_CancellationReaches ==
    /\ [](\A c \in CallIds :
            /\ \A i \in DriverEvents(call[c].log) : call[c].log[i].key = "call"
            /\ (call[c].cancelled /\ call[c].pc = "done" /\ call[c].op = "OpenStream")
               => IF Acquired(call[c])
                  THEN call[c].reader = "closed" /\ call[c].closes = 1
                  ELSE call[c].reader = "none" /\ call[c].closes = 0)
    /\ \A c \in CallIds :
         (call[c].cancelled /\ call[c].reader = "open") ~> (call[c].reader = "closed")

\* C26 witness: a stream was cancelled after its first chunk was sent, and
\* its handler returned with the handle closed.
C26_Witness ==
    \E c \in CallIds :
        /\ call[c].op = "OpenStream"
        /\ call[c].cancelled
        /\ call[c].pc = "done"
        /\ Len(call[c].sent) = 1
        /\ call[c].pos < Len(call[c].src)
        /\ call[c].reader = "closed"
        /\ call[c].closes = 1

\* ------------------------------------------------- what a response may say

\* The Driver method of the call was invoked and returned no error.
DriverSucceeded(cl) == DriverEvents(cl.log) # {} /\ ~IsError(Deref(cl.res).err)

\* C33: every unary call ends with a response.  In Load, Save and Delete
\* success is true exactly when the Driver method was invoked and returned
\* no error, and then the error string is empty; a ListObjects response
\* with names has an empty error string, and so has an IsDirectory response
\* that says true.
C33_ResponseConsistent ==
    \A c \in CallIds :
        LET cl == call[c]
        IN  UnaryDone(cl)
            => /\ ~IsNil(cl.resp)
               /\ cl.op \in {"Load", "Save", "Delete"}
                  => /\ Deref(cl.resp).Success <=> DriverSucceeded(cl)
                     /\ Deref(cl.resp).Success => Deref(cl.resp).Error = <<>>
               /\ cl.op = "ListObjects"
                  => (Deref(cl.resp).Objects # <<>> => Deref(cl.resp).Error = <<>>)
               /\ cl.op = "IsDirectory"
                  => (Deref(cl.resp).IsDirectory => Deref(cl.resp).Error = <<>>)

\* C33 witness: the Driver's ListObjects returned a name together with an
\* error, and the response holds the error and no name.
C33_Witness ==
    \E c \in CallIds :
        /\ UnaryDone(call[c])
        /\ call[c].op = "ListObjects"
        /\ DriverEvents(call[c].log) # {}
        /\ IsError(Deref(call[c].res).err)
        /\ Deref(call[c].res).objects # <<>>
        /\ Deref(call[c].resp).Objects = <<>>
        /\ Deref(call[c].resp).Error # <<>>

\* ------------------------------------------------- the order of the lookups

Present(p) == ~IsNil(p)

IsFetch(e) == e.ev = "GetSecret"

\* The references a configuration holds, in the order access key, secret
\* key, session token.
RefsOf(config) ==
    SelectSeq(<<config.AccessKeySecret, config.SecretKeySecret, config.SessionTokenSecret>>,
              Present)

\* How many references, from the first on, the environment can answer
\* before one fails.
LeadingOK(env, refs) ==
    Cardinality({i \in 1..Len(refs) : \A j \in 1..i : ~LookupFails(env, refs[j])})

\* C34: the secret store is asked for the references in the order access
\* key, secret key, session token; when every lookup succeeds each present
\* reference was fetched once and a driver is returned; when one fails it
\* is the last lookup made, no fetch is made for a later reference, no
\* driver is returned and the Driver is not called.
C34_LookupsInOrder ==
    \A c \in CallIds :
        LET cl == call[c]
        IN  (Resolved(cl) /\ ResolvesSecrets(cl))
            => /\ Len(SelectSeq(cl.log, IsFetch)) <= Len(RefsOf(ConfigOf(cl)))
               /\ \A i \in 1..Len(SelectSeq(cl.log, IsFetch)) :
                    FetchOf(SelectSeq(cl.log, IsFetch)[i], RefsOf(ConfigOf(cl))[i])
               /\ LeadingOK(Deref(cl.env), RefsOf(ConfigOf(cl))) = Len(RefsOf(ConfigOf(cl)))
                  => /\ Len(SelectSeq(cl.log, IsFetch)) = Len(RefsOf(ConfigOf(cl)))
                     /\ ~IsNil(cl.driver)
               /\ LeadingOK(Deref(cl.env), RefsOf(ConfigOf(cl))) < Len(RefsOf(ConfigOf(cl)))
                  => /\ CountEvents(cl.log, "ReadNamespace")
                          = LeadingOK(Deref(cl.env), RefsOf(ConfigOf(cl))) + 1
                     /\ Len(SelectSeq(cl.log, IsFetch))
                          = IF IsNil(Deref(cl.env).namespace) THEN 0
                            ELSE LeadingOK(Deref(cl.env), RefsOf(ConfigOf(cl))) + 1
                     /\ IsNil(cl.driver)
                     /\ DriverEvents(cl.log) = {}

\* C34 witness: the access key was fetched, the secret key's lookup failed,
\* and the session token, though referred to, was never asked for.
C34_Witness ==
    \E c \in CallIds :
        /\ Resolved(call[c])
        /\ ResolvesSecrets(call[c])
        /\ Len(RefsOf(ConfigOf(call[c]))) = 3
        /\ LeadingOK(Deref(call[c].env), RefsOf(ConfigOf(call[c]))) = 1
        /\ StoreValue(Deref(call[c].env), Deref(ConfigOf(call[c]).SessionTokenSecret)) # <<>>
        /\ Len(SelectSeq(call[c].log, IsFetch)) = 2
        /\ IsNil(call[c].driver)

\* ------------------------------------------------- the read loop, step by step

\* Slot c takes one pass of the read loop in this step.
LoopPass(c) ==
    /\ call[c].pc = "reading"
    /\ call'[c] # call[c]
    /\ call'[c].pc \in {"reading", "endMarker", "done"}
    /\ CountEvents(call'[c].log, "Read") = CountEvents(call[c].log, "Read") + 1

\* C36: a read that returns bytes together with an error, end-of-data or
\* another, has its bytes sent as one data message before the loop is left:
\* as long as no send has failed, the data messages carry every byte the
\* source has returned.
C36_BytesWithErrorSent ==
    /\ [](\A c \in CallIds :
            (call[c].op = "OpenStream" /\ ~call[c].sendFailed)
            => DataOf(call[c].sent) = SubSeq(call[c].src, 1, call[c].pos))
    /\ [][\A c \in CallIds :
            (/\ LoopPass(c)
             /\ call'[c].pos > call[c].pos
             /\ call'[c].readErr # "nil"
             /\ ~call'[c].sendFailed)
            => /\ call'[c].sent =
                    Append(call[c].sent,
                           OpenStreamResponse(SubSeq(call[c].src, call[c].pos + 1, call'[c].pos), FALSE))
               /\ call'[c].pc = "endMarker"]_vars

\* C36 witness: the only read returned the whole two-byte object together
\* with end-of-data, and the object has been sent.
C36_Witness ==
    \E c \in CallIds :
        /\ call[c].pc = "endMarker"
        /\ call[c].readErr = "EOF"
        /\ CountEvents(call[c].log, "Read") = 1
        /\ Len(call[c].src) = 2
        /\ call[c].sent = <<OpenStreamResponse(call[c].src, FALSE)>>

\* C37: when the send of a data message fails, the handler returns an
\* Internal status in that very pass of the loop: the chunk is not among
\* the messages, no end marker has been or will be sent, and the call is
\* over, so there is no further read or message.
C37_SendFailureEnds ==
    /\ [](\A c \in CallIds :
            (/\ call[c].op = "OpenStream"
             /\ call[c].sendFailed
             /\ call[c].pos > Len(DataOf(call[c].sent)))
            => /\ call[c].pc = "done"
               /\ call[c].err.code = "Internal"
               /\ EndMarkers(call[c].sent) = {}
               /\ DataOf(call[c].sent) = SubSeq(call[c].src, 1, Len(DataOf(call[c].sent))))
    /\ [][\A c \in CallIds :
            /\ (LoopPass(c) /\ call'[c].sendFailed)
               => /\ call'[c].pc = "done"
                  /\ call'[c].err.code = "Internal"
                  /\ call'[c].sent = call[c].sent
            /\ (call[c].pc = "done" /\ call[c].op = "OpenStream" /\ call'[c] # call[c])
               => call'[c].pc \in {"idle", "aborted"}]_vars

\* C37 witness: the second chunk could not be sent; the first is all the
\* client got.
C37_Witness ==
    \E c \in CallIds :
        /\ call[c].op = "OpenStream"
        /\ call[c].pc = "done"
        /\ call[c].sendFailed
        /\ call[c].err.code = "Internal"
        /\ CountEvents(call[c].log, "Read") = 2
        /\ Len(call[c].sent) = 1
        /\ call[c].pos > Len(call[c].sent[1].Data)

\* C38: an OpenStream whose source ends or fails after finitely many empty
\* reads, and whose sends return, comes to its return; and at every moment
\* it has sent at most one message per read made, plus the end marker.
C38_StreamTerminates ==
    /\ [](\A c \in CallIds :
            call[c].op = "OpenStream"
            => Len(call[c].sent) <= CountEvents(call[c].log, "Read") + 1)
    /\ \A c \in CallIds :
         (call[c].pc \in {"reading", "endMarker"}) ~> (call[c].pc = "done")

\* C38 witness: a stream over a three-byte source returned after an empty
\* read, with as many messages as reads.
C38_Witness ==
    \E c \in CallIds :
        /\ call[c].op = "OpenStream"
        /\ call[c].pc = "done"
        /\ ~call[c].sendFailed
        /\ call[c].idle > 0
        /\ Len(call[c].src) = 3
        /\ call[c].pos = 3
        /\ Len(call[c].sent) = CountEvents(call[c].log, "Read")

\* ------------------------------------------------ what the Driver is handed

\* C39: in every operation the artifact the Driver method is called with
\* has the key of the request's plugin location and, as its bucket, the
\* configuration as parsed from the request's blob, field for field; and
\* from its dispatch to its return a call's request stays as it came.
C39_ArtifactAsRequested ==
    /\ [](\A c \in CallIds :
            DriverEvents(call[c].log) # {}
            => /\ ~IsNil(call[c].argo)
               /\ Deref(call[c].argo).S3.Key = Deref(Deref(call[c].artifact).Plugin).Key
               /\ Deref(call[c].argo).S3.S3Bucket = ConfigOf(call[c])
               /\ Deref(call[c].argo).S3.S3Bucket.Bucket = StringField(BlobOf(call[c]).bucket)
               /\ Deref(call[c].argo).S3.S3Bucket.Endpoint = StringField(BlobOf(call[c]).endpoint))
    /\ [][\A c \in CallIds :
            (call[c].pc # "idle" /\ call'[c].pc # "idle")
            => (call'[c].artifact = call[c].artifact /\ call'[c].op = call[c].op)]_vars

\* C39 witness: a Delete whose configuration refers to all three secrets
\* reached the Driver with the request's key and bucket.
C39_Witness ==
    \E c \in CallIds :
        /\ UnaryDone(call[c])
        /\ call[c].op = "Delete"
        /\ DriverEvents(call[c].log) # {}
        /\ Len(RefsOf(ConfigOf(call[c]))) = 3
        /\ Deref(call[c].argo).S3.Key = "path/to/object"
        /\ Deref(call[c].argo).S3.S3Bucket.Bucket = "my-bucket"
        /\ Deref(call[c].argo).S3.S3Bucket.AccessKeySecret # <<>>

\* --------------------------------------------------- the driver of a configuration

\* The value the store of the environment holds for a reference, "" when
\* the configuration has none.
ValueFor(env, p) == IF IsNil(p) THEN "" ELSE Deref(StoreValue(env, Deref(p)))

\* C32: CreateArtifactDriver returns, for every resolved configuration, a
\* driver whose endpoint, region, secure flag, access key, secret key,
\* session token, role and ambient-credentials flag are those of the
\* configuration, without error and without a step outside; and the driver
\* getArtifactDriver returns has the endpoint, region, role and flag of the
\* parsed configuration, secure as the configuration says, and as
\* credentials what was resolved for it.
C32_DriverFromConfig ==
    /\ unit.pc = "created"
       => /\ Len(unit.out) = 1
          /\ unit.log = <<>>
          /\ \A f \in {"Endpoint", "Region", "Secure", "AccessKey", "SecretKey",
                       "SessionToken", "RoleARN", "UseSDKCreds"} :
               unit.out[1][f] = unit.config[f]
    /\ (unit.pc = "resolved" /\ unit.out[1].driver # <<>>)
       => /\ \A f \in {"Endpoint", "Region", "RoleARN", "UseSDKCreds"} :
               unit.out[1].driver[1][f] = Deref(unit.parsed.config)[f]
          /\ unit.out[1].driver[1].Secure
               = (IsNil(Deref(unit.parsed.config).Insecure)
                  \/ ~Deref(Deref(unit.parsed.config).Insecure))
          /\ Deref(unit.parsed.config).UseSDKCreds
             => /\ unit.out[1].log = <<>>
                /\ unit.out[1].driver[1].AccessKey = ""
                /\ unit.out[1].driver[1].SecretKey = ""
                /\ unit.out[1].driver[1].SessionToken = ""
          /\ ~Deref(unit.parsed.config).UseSDKCreds
             => /\ unit.out[1].driver[1].AccessKey
                     = ValueFor(Deref(unit.env), Deref(unit.parsed.config).AccessKeySecret)
                /\ unit.out[1].driver[1].SecretKey
                     = ValueFor(Deref(unit.env), Deref(unit.parsed.config).SecretKeySecret)
                /\ unit.out[1].driver[1].SessionToken
                     = ValueFor(Deref(unit.env), Deref(unit.parsed.config).SessionTokenSecret)

\* C32 witness: a driver was created from a configuration with every field
\* set and two different keys.
C32_Witness ==
    /\ unit.pc = "created"
    /\ unit.config.Endpoint = "minio:9000"
    /\ unit.config.Region = "us-east-1"
    /\ unit.config.AccessKey = "AKIA"
    /\ unit.config.SecretKey = "wJal"
    /\ unit.config.SessionToken = "tok"
    /\ unit.config.RoleARN # ""
    /\ ~unit.config.Secure
    /\ unit.out[1].AccessKey = "AKIA"

\* ------------------------------------------------------ one graceful stop

\* C35: GracefulStop is begun at most once, by the signal goroutine as it
\* takes the first SIGTERM off its channel; the goroutine then ends and
\* never waits again.  A SIGTERM that arrives after that is at most queued:
\* it changes nothing of the server or of the calls, and a process that is
\* stopping exits only with no call in flight, never by the signal.
C35_StopOnce ==
    /\ [](sigPc \in {"stopping", "done"}
          => (quit /\ \A c \in CallIds : call[c].pc # "aborted"))
    /\ [][/\ (quit' /\ ~quit) => (sigPc = "waiting" /\ sigPc' = "stopping")
          /\ quit => (quit' /\ sigPc' \in {"stopping", "done"} /\ draining' = draining)
          /\ sigPc = "done" => sigPc' = "done"
          /\ (quit /\ sigCh' > sigCh)
             => UNCHANGED <<mainPc, exitCode, socket, listener, sigPc, quit, conns, call, draining>>
          /\ (quit /\ mainPc # "exited" /\ mainPc' = "exited")
             => (exitCode' # 143 /\ \A c \in CallIds : ~InFlight(c))]_vars

\* C35 witness: a second SIGTERM is queued while a stream is draining.
C35_Witness ==
    /\ sigPc = "stopping"
    /\ sigCh = 1
    /\ mainPc = "serving"
    /\ \E c \in draining : call[c].pc = "reading"

\* ---------------------------------------------------------------- C31

====
